---- MODULE Spec2Model ----
(***************************************************************************)
(* cc-express: an HTTP gateway that translates OpenAI chat-completions     *)
(* requests into one run of the Claude agent backend and re-encodes the    *)
(* backend's messages as an OpenAI completion (JSON) or chunk stream (SSE).*)
(*                                                                         *)
(* The model follows one POST /chat/completions request from the route     *)
(* handler to its last write.  Every action is one synchronous run of the  *)
(* handler between two awaits of the backend iterator; the backend is the  *)
(* environment: at each pull it yields a message, ends, or raises.         *)
(***************************************************************************)
EXTENDS Integers, Sequences, FiniteSets, TLC

(***************************************************************************)
(* Bounds                                                                  *)
(***************************************************************************)
\* number of messages the backend yields before it must end or raise
MaxEvents == 3

(***************************************************************************)
(* JavaScript values of the request body, tagged by their runtime type.    *)
(* An object is its sequence of <<key, value>> pairs in insertion order.   *)
(***************************************************************************)
Undefined == [t |-> "undefined"]
Null == [t |-> "null"]
Str(s) == [t |-> "string", v |-> s]
Num(n) == [t |-> "number", v |-> n]
Bool(b) == [t |-> "boolean", v |-> b]
Arr(s) == [t |-> "array", v |-> s]
Obj(pairs) == [t |-> "object", v |-> pairs]

\* o.f : the property f of a value (undefined when o has no such property)
Get(o, f) ==
  IF o.t = "object" /\ \E i \in 1..Len(o.v) : o.v[i][1] = f
  THEN LET i == CHOOSE j \in 1..Len(o.v) :
                  /\ o.v[j][1] = f
                  /\ \A k \in (j + 1)..Len(o.v) : o.v[k][1] # f
       IN o.v[i][2]
  ELSE Undefined

\* ToBoolean(x)
Truthy(x) ==
  CASE x.t = "undefined" -> FALSE
    [] x.t = "null" -> FALSE
    [] x.t = "string" -> x.v # ""
    [] x.t = "number" -> x.v # 0
    [] x.t = "boolean" -> x.v
    [] OTHER -> TRUE

\* typeof x === "object"
TypeofObject(x) == x.t \in {"null", "array", "object"}

\* text absent from a record: the optional fields of the backend's messages
\* and blocks are record fields that may be missing
Has(r, f) == f \in DOMAIN r

\* the value written for a JSON null in a response
NullValue == "<null>"

(***************************************************************************)
(* middleware/error-handler.ts                                             *)
(***************************************************************************)
\* new ValidationError(message): APIError(400, "invalid_request_error", message)
ValidationError(message) ==
  [name |-> "ValidationError", isAPIError |-> TRUE, isError |-> TRUE,
   statusCode |-> 400,
   code |-> "invalid_request_error", message |-> message]

\* an Error that is not an APIError
PlainError(message) ==
  [name |-> "Error", isAPIError |-> FALSE, isError |-> TRUE, message |-> message]

\* a thrown value that is not an Error instance
ThrownValue == [name |-> "value", isAPIError |-> FALSE, isError |-> FALSE]

\* the SyntaxError body-parser hands to next() for a body that is not JSON;
\* it carries the raw text as its `body` property
JsonSyntaxError ==
  [name |-> "SyntaxError", isAPIError |-> FALSE, isError |-> TRUE,
   message |-> "Unexpected end of JSON input", body |-> "{\"messages\": ["]

\* the handler passing the message of every Error on to the client
errorHandler_LeaksMessage(err) ==
  IF err.isAPIError
  THEN [status |-> err.statusCode,
        body |-> [error |-> [message |-> err.message, type |-> err.code,
                             param |-> NullValue, code |-> err.code]]]
  ELSE IF err.name = "SyntaxError" /\ Has(err, "body")
  THEN [status |-> 400,
        body |-> [error |-> [message |-> "Invalid JSON in request body",
                             type |-> "invalid_request_error",
                             param |-> NullValue, code |-> "invalid_json"]]]
  ELSE [status |-> 500,
        body |-> [error |-> [message |-> IF err.isError THEN err.message
                                         ELSE "An internal error occurred",
                             type |-> "internal_error",
                             param |-> NullValue, code |-> "internal_error"]]]

\* errorHandler(err, req, res, next): the JSON response it sends
errorHandler(err) ==
  IF err.isAPIError
  THEN [status |-> err.statusCode,
        body |-> [error |-> [message |-> err.message, type |-> err.code,
                             param |-> NullValue, code |-> err.code]]]
  ELSE IF err.name = "SyntaxError" /\ Has(err, "body")
  THEN [status |-> 400,
        body |-> [error |-> [message |-> "Invalid JSON in request body",
                             type |-> "invalid_request_error",
                             param |-> NullValue, code |-> "invalid_json"]]]
  ELSE [status |-> 500,
        body |-> [error |-> [message |-> "An internal error occurred",
                             type |-> "internal_error",
                             param |-> NullValue, code |-> "internal_error"]]]

(***************************************************************************)
(* routes/chat-completions.ts: validateRequest                             *)
(***************************************************************************)
Roles == {"system", "user", "assistant", "tool"}

\* the check with the content test passing a missing content
validateMessage_ContentOptional(msg, i) ==
  IF ~Truthy(msg) \/ ~TypeofObject(msg)
  THEN "messages[" \o ToString(i - 1) \o "] must be an object"
  ELSE IF \/ ~Truthy(Get(msg, "role"))
          \/ ~(Get(msg, "role").t = "string" /\ Get(msg, "role").v \in Roles)
  THEN "messages[" \o ToString(i - 1)
         \o "].role must be one of: system, user, assistant, tool"
  ELSE IF /\ Get(msg, "content").t # "null"
          /\ Get(msg, "content").t # "undefined"
          /\ Get(msg, "content").t # "string"
          /\ Get(msg, "content").t # "array"
  THEN "messages[" \o ToString(i - 1)
         \o "].content must be a string, array, or null"
  ELSE ""

\* the check of messages[i] (i is 1-based here, 0-based in the message):
\* the ValidationError message it throws, or "" when messages[i] passes
validateMessage(msg, i) ==
  IF ~Truthy(msg) \/ ~TypeofObject(msg)
  THEN "messages[" \o ToString(i - 1) \o "] must be an object"
  ELSE IF \/ ~Truthy(Get(msg, "role"))
          \/ ~(Get(msg, "role").t = "string" /\ Get(msg, "role").v \in Roles)
  THEN "messages[" \o ToString(i - 1)
         \o "].role must be one of: system, user, assistant, tool"
  ELSE IF /\ Get(msg, "content").t # "null"
          /\ Get(msg, "content").t # "string"
          /\ Get(msg, "content").t # "array"
  THEN "messages[" \o ToString(i - 1)
         \o "].content must be a string, array, or null"
  ELSE ""

\* validateRequest without the test for an empty messages array
validateRequest_AcceptsEmpty(body) ==
  IF ~Truthy(body) \/ ~TypeofObject(body)
  THEN [ok |-> FALSE, error |-> ValidationError("Request body must be an object")]
  ELSE LET messages == Get(body, "messages") IN
    IF messages.t # "array"
    THEN [ok |-> FALSE, error |-> ValidationError("messages must be an array")]
    ELSE IF \E i \in 1..Len(messages.v) : validateMessage(messages.v[i], i) # ""
    THEN LET i == CHOOSE j \in 1..Len(messages.v) :
                    /\ validateMessage(messages.v[j], j) # ""
                    /\ \A k \in 1..(j - 1) : validateMessage(messages.v[k], k) = ""
         IN [ok |-> FALSE,
             error |-> ValidationError(validateMessage(messages.v[i], i))]
    ELSE [ok |-> TRUE]

\* validateRequest(body): [ok |-> TRUE] when body is returned, else the
\* ValidationError thrown
validateRequest(body) ==
  IF ~Truthy(body) \/ ~TypeofObject(body)
  THEN [ok |-> FALSE, error |-> ValidationError("Request body must be an object")]
  ELSE LET messages == Get(body, "messages") IN
    IF messages.t # "array"
    THEN [ok |-> FALSE, error |-> ValidationError("messages must be an array")]
    ELSE IF Len(messages.v) = 0
    THEN [ok |-> FALSE, error |-> ValidationError("messages array cannot be empty")]
    ELSE IF \E i \in 1..Len(messages.v) : validateMessage(messages.v[i], i) # ""
    THEN LET i == CHOOSE j \in 1..Len(messages.v) :
                    /\ validateMessage(messages.v[j], j) # ""
                    /\ \A k \in 1..(j - 1) : validateMessage(messages.v[k], k) = ""
         IN [ok |-> FALSE,
             error |-> ValidationError(validateMessage(messages.v[i], i))]
    ELSE [ok |-> TRUE]

(***************************************************************************)
(* converters/openai-to-claude.ts                                          *)
(***************************************************************************)
RECURSIVE JoinStr(_, _)
\* parts.join(sep)
JoinStr(parts, sep) ==
  IF Len(parts) = 0 THEN ""
  ELSE IF Len(parts) = 1 THEN parts[1]
  ELSE parts[1] \o sep \o JoinStr(Tail(parts), sep)

\* `${x}` of a value
TemplateStr(x) ==
  CASE x.t = "string" -> x.v
    [] x.t = "number" -> ToString(x.v)
    [] x.t = "null" -> "null"
    [] x.t = "boolean" -> IF x.v THEN "true" ELSE "false"
    [] OTHER -> "undefined"

RECURSIVE SelectParts(_)
\* content.filter(part => part.type === "text" && typeof part.text === "string")
\*        .map(part => part.text)
SelectParts(parts) ==
  IF Len(parts) = 0 THEN <<>>
  ELSE IF /\ Get(parts[1], "type") = Str("text")
          /\ Get(parts[1], "text").t = "string"
       THEN <<Get(parts[1], "text").v>> \o SelectParts(Tail(parts))
       ELSE SelectParts(Tail(parts))

\* getTextContent(content)
getTextContent(content) ==
  IF content.t = "null" THEN ""
  ELSE IF content.t = "string" THEN content.v
  ELSE JoinStr(SelectParts(content.v), "\n")

\* getTextContent raises a TypeError: part.type is read of a null part
getTextContentThrows(content) ==
  /\ content.t = "array"
  /\ \E i \in 1..Len(content.v) : content.v[i].t \in {"null", "undefined"}

\* getRoleLabel(role); the default branch capitalizes the first letter, and
\* of the roles validateRequest lets through only "system" takes it
getRoleLabel(role) ==
  CASE role = "user" -> "User"
    [] role = "assistant" -> "Assistant"
    [] role = "tool" -> "Tool"
    [] role = "system" -> "System"
    [] OTHER -> role

\* message.tool_calls && message.tool_calls.length > 0
HasToolCallsField(message) ==
  /\ Get(message, "tool_calls").t = "array"
  /\ Len(Get(message, "tool_calls").v) > 0

RECURSIVE ToolCallLines(_)
\* tool_calls.map(tc => `[Tool Call: ${tc.function.name}(${tc.function.arguments})]`)
ToolCallLines(tcs) ==
  IF Len(tcs) = 0 THEN <<>>
  ELSE <<"[Tool Call: " \o TemplateStr(Get(Get(tcs[1], "function"), "name"))
           \o "(" \o TemplateStr(Get(Get(tcs[1], "function"), "arguments"))
           \o ")]">> \o ToolCallLines(Tail(tcs))

\* formatMessage(message)
formatMessage(message) ==
  LET roleLabel == getRoleLabel(Get(message, "role").v)
      text == getTextContent(Get(message, "content"))
      toolCallsStr == JoinStr(ToolCallLines(Get(message, "tool_calls").v), "\n")
      content == IF HasToolCallsField(message)
                 THEN IF text # "" THEN text \o "\n" \o toolCallsStr
                      ELSE toolCallsStr
                 ELSE text
  IN IF Get(message, "role") = Str("tool") /\ Truthy(Get(message, "tool_call_id"))
     THEN "Tool Result (" \o TemplateStr(Get(message, "tool_call_id")) \o "): "
            \o content
     ELSE roleLabel \o ": " \o content

\* formatMessage raises a TypeError: tc.function.name is read of a tool call
\* without a function, or the content has a null part
formatMessageThrows(message) ==
  \/ getTextContentThrows(Get(message, "content"))
  \/ /\ HasToolCallsField(message)
     /\ \E i \in 1..Len(Get(message, "tool_calls").v) :
          Get(Get(message, "tool_calls").v[i], "function").t
            \in {"null", "undefined"}

\* the search running from the front: the first user message
findLastUserIndex_First(messages) ==
  IF \E i \in 1..Len(messages) : Get(messages[i], "role") = Str("user")
  THEN CHOOSE i \in 1..Len(messages) :
         /\ Get(messages[i], "role") = Str("user")
         /\ \A k \in 1..(i - 1) : Get(messages[k], "role") # Str("user")
  ELSE 0

\* findLastIndex(arr, m => m.role === "user"), 1-based; 0 when there is none
findLastUserIndex(messages) ==
  IF \E i \in 1..Len(messages) : Get(messages[i], "role") = Str("user")
  THEN CHOOSE i \in 1..Len(messages) :
         /\ Get(messages[i], "role") = Str("user")
         /\ \A k \in (i + 1)..Len(messages) : Get(messages[k], "role") # Str("user")
  ELSE 0

\* messages.map(m => formatMessage(m))
FormatAll(messages) == [i \in 1..Len(messages) |-> formatMessage(messages[i])]

\* the sections with the trailing messages put after the current request
formatConversation_TrailingLast(messages) ==
  IF Len(messages) = 0 THEN ""
  ELSE IF Len(messages) = 1 THEN getTextContent(Get(messages[1], "content"))
  ELSE LET lastUserIndex == findLastUserIndex(messages) IN
    IF lastUserIndex = 0 THEN JoinStr(FormatAll(messages), "\n\n")
    ELSE LET history == SubSeq(messages, 1, lastUserIndex - 1)
             currentRequest == messages[lastUserIndex]
             afterCurrent == SubSeq(messages, lastUserIndex + 1, Len(messages))
             parts1 == IF Len(history) > 0
                       THEN <<"Previous conversation:",
                              JoinStr(FormatAll(history), "\n\n"), "">>
                       ELSE <<>>
             parts2 == IF Len(afterCurrent) > 0
                       THEN <<"", JoinStr(FormatAll(afterCurrent), "\n\n")>>
                       ELSE <<>>
         IN JoinStr(parts1
                      \o <<"Current request:",
                           getTextContent(Get(currentRequest, "content"))>>
                      \o parts2, "\n")

\* formatConversation(messages)
formatConversation(messages) ==
  IF Len(messages) = 0 THEN ""
  ELSE IF Len(messages) = 1 THEN getTextContent(Get(messages[1], "content"))
  ELSE LET lastUserIndex == findLastUserIndex(messages) IN
    IF lastUserIndex = 0 THEN JoinStr(FormatAll(messages), "\n\n")
    ELSE LET history == SubSeq(messages, 1, lastUserIndex - 1)
             currentRequest == messages[lastUserIndex]
             afterCurrent == SubSeq(messages, lastUserIndex + 1, Len(messages))
             parts1 == IF Len(history) > 0
                       THEN <<"Previous conversation:",
                              JoinStr(FormatAll(history), "\n\n"), "">>
                       ELSE <<>>
             parts2 == IF Len(afterCurrent) > 0
                       THEN <<JoinStr(FormatAll(afterCurrent), "\n\n"), "">>
                       ELSE <<>>
         IN JoinStr(parts1 \o parts2
                      \o <<"Current request:",
                           getTextContent(Get(currentRequest, "content"))>>, "\n")

\* formatConversation raises
formatConversationThrows(messages) ==
  IF Len(messages) = 0 THEN FALSE
  ELSE IF Len(messages) = 1 THEN getTextContentThrows(Get(messages[1], "content"))
  ELSE \E i \in 1..Len(messages) :
         IF i = findLastUserIndex(messages)
         THEN getTextContentThrows(Get(messages[i], "content"))
         ELSE formatMessageThrows(messages[i])

RECURSIVE SystemPromptOf(_, _)
\* the loop over the messages that concatenates the system messages;
\* acc is the systemPrompt so far, [defined, text]
SystemPromptOf(messages, acc) ==
  IF Len(messages) = 0 THEN acc
  ELSE IF Get(messages[1], "role") = Str("system")
       THEN LET content == getTextContent(Get(messages[1], "content")) IN
            SystemPromptOf(Tail(messages),
              [defined |-> TRUE,
               text |-> IF acc.defined /\ acc.text # ""
                        THEN acc.text \o "\n\n" \o content
                        ELSE content])
       ELSE SystemPromptOf(Tail(messages), acc)

\* the loop leaving the system messages in the conversation
ConversationMessages_KeepsSystem(messages) == messages

\* conversationMessages: the messages whose role is not system, in order
ConversationMessages(messages) ==
  SelectSeq(messages, LAMBDA m : Get(m, "role") # Str("system"))

\* convertOpenAIToClaude(request) raises
convertThrows(request) ==
  LET messages == Get(request, "messages") IN
  \/ ~Truthy(messages)
  \/ messages.t = "array" /\ Len(messages.v) = 0
  \/ /\ messages.t = "array"
     /\ \/ \E i \in 1..Len(messages.v) :
             /\ Get(messages.v[i], "role") = Str("system")
             /\ getTextContentThrows(Get(messages.v[i], "content"))
        \/ LET conv == ConversationMessages(messages.v) IN
             IF Len(conv) = 1 /\ Get(conv[1], "role") = Str("user")
             THEN getTextContentThrows(Get(conv[1], "content"))
             ELSE formatConversationThrows(conv)

\* the conversion without the single user message path: every conversation
\* is formatted message by message
convertOpenAIToClaude_AlwaysFormats(request) ==
  LET messages == Get(request, "messages").v
      systemPrompt == SystemPromptOf(messages, [defined |-> FALSE, text |-> ""])
      conv == ConversationMessages(messages)
  IN [prompt |-> JoinStr(FormatAll(conv), "\n\n"), systemPrompt |-> systemPrompt]

\* the value convertOpenAIToClaude throws when it raises: the Error of its
\* own test of messages, or the TypeError of reading a null content part
convertError(request) ==
  LET messages == Get(request, "messages") IN
  IF ~Truthy(messages) \/ (messages.t = "array" /\ Len(messages.v) = 0)
  THEN PlainError("Messages array is required and cannot be empty")
  ELSE [name |-> "TypeError", isAPIError |-> FALSE, isError |-> TRUE,
        message |-> "Cannot read properties of null (reading 'type')"]

\* convertOpenAIToClaude(request): {prompt, systemPrompt}
convertOpenAIToClaude(request) ==
  LET messages == Get(request, "messages").v
      systemPrompt == SystemPromptOf(messages, [defined |-> FALSE, text |-> ""])
      conv == ConversationMessages(messages)
  IN IF Len(conv) = 1 /\ Get(conv[1], "role") = Str("user")
     THEN [prompt |-> getTextContent(Get(conv[1], "content")),
           systemPrompt |-> systemPrompt]
     ELSE [prompt |-> formatConversation(conv), systemPrompt |-> systemPrompt]

(***************************************************************************)
(* utils/id-generator.ts: nanoid(24) is random; a generated identifier is  *)
(* any member of a pool, chosen by the environment at each call.           *)
(***************************************************************************)
\* the outcomes of generateCompletionId()
CompletionIds == {"chatcmpl-A", "chatcmpl-B"}

\* the outcomes of generateToolCallId()
SynthIds == {"call_A", "call_B"}

(***************************************************************************)
(* converters/claude-to-openai.ts                                          *)
(***************************************************************************)
RECURSIVE JsonStringify(_)
\* JSON.stringify(v) of a tagged value (the strings of the model hold no
\* character that needs escaping)
JsonStringify(v) ==
  CASE v.t = "string" -> "\"" \o v.v \o "\""
    [] v.t = "number" -> ToString(v.v)
    [] v.t = "boolean" -> (IF v.v THEN "true" ELSE "false")
    [] v.t = "null" -> "null"
    [] v.t = "array" ->
         "[" \o JoinStr([i \in 1..Len(v.v) |-> JsonStringify(v.v[i])], ",") \o "]"
    [] v.t = "object" ->
         "{" \o JoinStr([i \in 1..Len(v.v) |->
                           "\"" \o v.v[i][1] \o "\":" \o JsonStringify(v.v[i][2])],
                        ",") \o "}"
    [] OTHER -> "undefined"

\* block.type === "text" && block.text
IsTextBlock(block) ==
  block.type = "text" /\ Has(block, "text") /\ block.text # ""

\* block.type === "tool_use" && block.name
IsToolUseBlock(block) ==
  block.type = "tool_use" /\ Has(block, "name") /\ block.name # ""

\* the OpenAIToolCall built from a tool_use block; fresh is what
\* generateToolCallId() returns when it is called for this block
toolCallOf(block, fresh) ==
  [id |-> IF Has(block, "id") /\ block.id # "" THEN block.id ELSE fresh,
   type |-> "function",
   function |-> [name |-> block.name,
                 arguments |-> JsonStringify(IF Has(block, "input")
                                             THEN block.input
                                             ELSE Obj(<<>>))]]

RECURSIVE TextPartsOf(_)
\* the textParts array after the loop over the blocks
TextPartsOf(content) ==
  IF Len(content) = 0 THEN <<>>
  ELSE (IF IsTextBlock(content[1]) THEN <<content[1].text>> ELSE <<>>)
         \o TextPartsOf(Tail(content))

RECURSIVE ToolCallsOf(_, _, _)
\* the toolCalls array after the loop over the blocks from block i on;
\* gen[i] is the outcome of generateToolCallId() at block i
ToolCallsOf(content, i, gen) ==
  IF i > Len(content) THEN <<>>
  ELSE (IF ~IsTextBlock(content[i]) /\ IsToolUseBlock(content[i])
        THEN <<toolCallOf(content[i], gen[i])>>
        ELSE <<>>)
         \o ToolCallsOf(content, i + 1, gen)

\* message.type === "assistant" && !!message.message?.content
\* (services/claude-agent.ts; an empty content array is truthy)
isAssistantMessage(message) ==
  /\ message.type = "assistant"
  /\ Has(message, "message")
  /\ Has(message.message, "content")

\* the test that takes every message for a Result event
isResultMessage_Always(message) == message.type = message.type

\* message.type === "result"  (services/claude-agent.ts)
isResultMessage(message) == message.type = "result"

\* extractContent(message): {textContent, toolCalls}
extractContent(message, gen) ==
  IF ~(Has(message, "message") /\ Has(message.message, "content"))
  THEN [textContent |-> "", toolCalls |-> <<>>]
  ELSE [textContent |-> JoinStr(TextPartsOf(message.message.content), "\n"),
        toolCalls |-> ToolCallsOf(message.message.content, 1, gen)]

\* extractUsage whose total leaves the output tokens out
extractUsage_TotalIsInput(message) ==
  LET inputTokens ==
        IF Has(message, "usage") /\ Has(message.usage, "input_tokens")
        THEN message.usage.input_tokens ELSE 0
      outputTokens ==
        IF Has(message, "usage") /\ Has(message.usage, "output_tokens")
        THEN message.usage.output_tokens ELSE 0
  IN [prompt_tokens |-> inputTokens,
      completion_tokens |-> outputTokens,
      total_tokens |-> inputTokens]

\* extractUsage(message)
extractUsage(message) ==
  LET inputTokens ==
        IF Has(message, "usage") /\ Has(message.usage, "input_tokens")
        THEN message.usage.input_tokens ELSE 0
      outputTokens ==
        IF Has(message, "usage") /\ Has(message.usage, "output_tokens")
        THEN message.usage.output_tokens ELSE 0
  IN [prompt_tokens |-> inputTokens,
      completion_tokens |-> outputTokens,
      total_tokens |-> inputTokens + outputTokens]

\* the message object of a completion: tool_calls is set only when non-empty
responseMessage(content, toolCalls) ==
  IF Len(toolCalls) > 0
  THEN [role |-> "assistant", content |-> content, tool_calls |-> toolCalls]
  ELSE [role |-> "assistant", content |-> content]

\* buildChatCompletion(id, model, content, toolCalls, usage); the field
\* `created` (the wall clock) is left out of every object
buildChatCompletion(id, model, content, toolCalls, u) ==
  [id |-> id,
   object |-> "chat.completion",
   model |-> model,
   choices |-> <<[index |-> 0,
                  message |-> responseMessage(content, toolCalls),
                  finish_reason |-> IF Len(toolCalls) > 0
                                    THEN "tool_calls" ELSE "stop"]>>,
   usage |-> u]

\* the chunk object shared by the four chunk builders
chunkOf(id, model, delta, finish_reason) ==
  [id |-> id,
   object |-> "chat.completion.chunk",
   model |-> model,
   choices |-> <<[index |-> 0, delta |-> delta,
                  finish_reason |-> finish_reason]>>]

\* the first chunk without the role in its delta
buildInitialChunk_NoRole(id, model) ==
  chunkOf(id, model, <<>>, NullValue)

\* buildInitialChunk(id, model)
buildInitialChunk(id, model) ==
  chunkOf(id, model, [role |-> "assistant"], NullValue)

\* buildContentChunk that stamps the chunk with an id of its own
buildContentChunk_OwnId(id, model, content) ==
  chunkOf("chatcmpl-content", model, [content |-> content], NullValue)

\* buildContentChunk(id, model, content)
buildContentChunk(id, model, content) ==
  chunkOf(id, model, [content |-> content], NullValue)

\* buildToolCallChunk(id, model, toolCalls, isInitial)
buildToolCallChunk(id, model, toolCalls, isInitial) ==
  chunkOf(id, model,
    [tool_calls |->
       [i \in 1..Len(toolCalls) |->
          IF isInitial
          THEN [index |-> i - 1,
                id |-> toolCalls[i].id,
                type |-> "function",
                function |-> [name |-> toolCalls[i].function.name,
                              arguments |-> toolCalls[i].function.arguments]]
          ELSE [index |-> i - 1,
                function |-> [arguments |-> toolCalls[i].function.arguments]]]],
    NullValue)

\* the empty object {}
EmptyObject == <<>>

\* buildFinalChunk(id, model, hasToolCalls)
buildFinalChunk(id, model, hasTools) ==
  chunkOf(id, model, EmptyObject, IF hasTools THEN "tool_calls" ELSE "stop")

(***************************************************************************)
(* services/streaming.ts: what is written to the response, frame by frame. *)
(* A frame `data: <payload>\n\n` is kept as its payload: the object that   *)
(* JSON.stringify serializes, or the literal [DONE].                       *)
(***************************************************************************)
DoneFrame == [frame |-> "[DONE]"]

\* sendChunk(res, chunk)
sendChunk(o, chunk) == Append(o, [frame |-> "json", json |-> chunk])

\* sendDone that writes nothing
sendDone_Dropped(o) == o

\* sendDone(res)
sendDone(o) == Append(o, DoneFrame)

\* sendError that reports the error with the JSON error handler's code
sendError_WrongCode(o, message) ==
  Append(o, [frame |-> "json",
             json |-> [error |-> [message |-> message,
                                  type |-> "internal_error",
                                  param |-> NullValue,
                                  code |-> "internal_error"]]])

\* sendError(res, message)
sendError(o, message) ==
  Append(o, [frame |-> "json",
             json |-> [error |-> [message |-> message,
                                  type |-> "internal_error",
                                  param |-> NullValue,
                                  code |-> "stream_error"]]])

(***************************************************************************)
(* routes/models.ts                                                        *)
(***************************************************************************)
\* MODEL_MAP: model id -> SDK model name
MODEL_MAP ==
  [m \in {"claude-opus-4-5", "opus", "claude-opus"} |-> "opus"]
    @@ [m \in {"claude-sonnet-4-5", "sonnet", "claude-sonnet"} |-> "sonnet"]
    @@ [m \in {"claude-haiku-4-5", "haiku", "claude-haiku"} |-> "haiku"]

\* property names every object literal inherits from Object.prototype
\* (MODEL_MAP is a plain object: MODEL_MAP["constructor"] is a function)
InheritedKeys == {"constructor", "toString", "valueOf", "hasOwnProperty"}

\* body.model || "claude-sonnet-4-5"
requestedModelOf(request) ==
  IF Truthy(Get(request, "model")) THEN Get(request, "model").v
  ELSE "claude-sonnet-4-5"

\* MODEL_MAP[requestedModel] || "sonnet"
sdkModelOf(requestedModel) ==
  IF requestedModel \in DOMAIN MODEL_MAP THEN MODEL_MAP[requestedModel]
  ELSE IF requestedModel \in InheritedKeys THEN "<function>"
  ELSE "sonnet"

(***************************************************************************)
(* The backend's messages (the ClaudeMessage values the SDK iterator can   *)
(* yield) and the values it can raise.                                     *)
(***************************************************************************)
TextBlock(text) == [type |-> "text", text |-> text]
ToolUse(id, name, input) ==
  [type |-> "tool_use", id |-> id, name |-> name, input |-> input]
Assistant(content) ==
  [type |-> "assistant", message |-> [role |-> "assistant", content |-> content]]

Tokyo == Obj(<<<<"city", Str("Tokyo")>>>>)

AssistantEvents ==
  { Assistant(<<TextBlock("Hello")>>),
    Assistant(<<TextBlock("a"), TextBlock("b")>>),
    Assistant(<<[type |-> "thinking"], TextBlock("")>>),
    Assistant(<<>>),
    Assistant(<<ToolUse("toolu_1", "get_weather", Tokyo)>>),
    Assistant(<<ToolUse("toolu_1", "get_time", Obj(<<>>))>>),
    Assistant(<<ToolUse("toolu_2", "get_time", Obj(<<>>))>>),
    Assistant(<<ToolUse("toolu_1", "get_weather", Tokyo),
                ToolUse("toolu_1", "get_time", Obj(<<>>))>>),
    Assistant(<<TextBlock("Hello"), ToolUse("toolu_2", "get_time", Obj(<<>>))>>),
    Assistant(<<[type |-> "tool_use", name |-> "get_weather", input |-> Tokyo]>>),
    Assistant(<<[type |-> "tool_use", id |-> "toolu_2", name |-> "get_time"]>>),
    Assistant(<<[type |-> "tool_use", id |-> "toolu_1"]>>) }

OtherEvents ==
  { [type |-> "assistant"],
    [type |-> "system", subtype |-> "init"],
    [type |-> "result", subtype |-> "success"],
    [type |-> "result", subtype |-> "success",
     usage |-> [input_tokens |-> 5, output_tokens |-> 2]],
    [type |-> "result", subtype |-> "success", usage |-> [input_tokens |-> 3]] }

Events == AssistantEvents \cup OtherEvents

\* what the iterator can raise: an Error, or a value that is not an Error
BackendErrors == {PlainError("Claude Code process exited with code 1"), ThrownValue}

\* the number of content blocks of a message
BlockCount(message) ==
  IF Has(message, "message") /\ Has(message.message, "content")
  THEN Len(message.message.content) ELSE 0

(***************************************************************************)
(* The request bodies that reach the route handler.                        *)
(***************************************************************************)
Msg(role, content) == Obj(<<<<"role", Str(role)>>, <<"content", content>>>>)
Body(fields) == Obj(fields)

ValidBodies ==
  { Body(<<<<"model", Str("claude-sonnet-4-5")>>,
           <<"messages", Arr(<<Msg("user", Str("Hi"))>>)>>>>),
    Body(<<<<"model", Str("opus")>>,
           <<"messages", Arr(<<Msg("user", Str("Hi"))>>)>>,
           <<"stream", Bool(TRUE)>>>>),
    Body(<<<<"messages", Arr(<<Msg("system", Str("Be brief")),
                               Msg("user", Str("Hi"))>>)>>,
           <<"stream", Bool(TRUE)>>>>),
    Body(<<<<"model", Str("gpt-4")>>,
           <<"messages", Arr(<<Msg("user", Arr(<<Null>>))>>)>>,
           <<"stream", Bool(TRUE)>>>>) }

InvalidBodies ==
  { Undefined,
    Str("hello"),
    Arr(<<>>),
    Body(<<<<"model", Str("opus")>>>>),
    Body(<<<<"messages", Str("Hi")>>, <<"stream", Bool(TRUE)>>>>),
    Body(<<<<"messages", Arr(<<>>)>>>>),
    Body(<<<<"messages", Arr(<<>>)>>, <<"stream", Bool(TRUE)>>>>),
    Body(<<<<"messages", Arr(<<Null>>)>>>>),
    Body(<<<<"messages", Arr(<<Msg("user", Str("Hi")), Str("Hi")>>)>>>>),
    Body(<<<<"messages", Arr(<<Obj(<<<<"content", Str("Hi")>>>>)>>)>>>>),
    Body(<<<<"messages", Arr(<<Msg("user", Str("Hi")),
                               Msg("developer", Str("x"))>>)>>,
           <<"stream", Bool(TRUE)>>>>),
    Body(<<<<"messages", Arr(<<Msg("user", Num(7))>>)>>>>),
    Body(<<<<"messages", Arr(<<Msg("user", Str("Hi")),
                               Obj(<<<<"role", Str("assistant")>>>>)>>)>>>>) }

Bodies == ValidBodies \cup InvalidBodies

(***************************************************************************)
(* State of one request                                                    *)
(***************************************************************************)
VARIABLES
  pc,                 \* "route", "streaming", "nonstreaming" or "done"
  body,               \* req.body
  resp,               \* the JSON responses sent: res.json / res.status().json
  sseHeaders,         \* setupSSE has run
  out,                \* the frames written to the event stream
  ended,              \* res.end() was called
  completionId,       \* the local completionId of the running handler
  idCalls,            \* the number of calls of generateCompletionId
  backendRuns,        \* the options of every queryClaudeAgent run started
  backend,            \* the iterator: "idle", "running", "ended" or "raised"
  events,             \* the messages the backend iterator has yielded
  extracted,          \* the toolCalls extractContent returned, per event
  hasToolCalls,       \* streaming: let hasToolCalls
  sentToolCallIds,    \* streaming: sentToolCallIds
  collectedContent,   \* non-streaming: collectedContent
  collectedToolCalls, \* non-streaming: collectedToolCalls
  seenToolCallIds,    \* non-streaming: seenToolCallIds
  usage,              \* non-streaming: usage
  req,                \* the HTTP request: path, Authorization header, body text
  apiSecret,          \* config.apiSecret
  config,             \* the rest of config: the settings of the agent
  connected,          \* the client still holds the connection of the response
  queries,            \* the arguments of every query() call of the SDK
  pair                \* the locals of two handler invocations running at once

vars ==
  <<pc, body, resp, sseHeaders, out, ended, completionId, idCalls, backendRuns,
    backend, events, extracted, hasToolCalls, sentToolCallIds, collectedContent,
    collectedToolCalls, seenToolCallIds, usage, req, apiSecret, config,
    connected, queries, pair>>

streamVars == <<hasToolCalls, sentToolCallIds>>
collectVars == <<collectedContent, collectedToolCalls, seenToolCallIds, usage>>
reqVars == <<req, apiSecret, config, connected, pair>>

ZeroUsage == [prompt_tokens |-> 0, completion_tokens |-> 0, total_tokens |-> 0]

\* loadConfig() with only API_SECRET set in the environment
DefaultConfig ==
  [allowedTools |-> <<"Read", "Edit", "Bash">>, permissionMode |-> "acceptEdits",
   maxTurns |-> 50, workingDir |-> "/workspace", noToolExecution |-> TRUE]

\* the Authorization header of a request that has none
NoHeader == "<absent>"

\* nothing has been answered, generated or started for the request
Fresh ==
  /\ connected = TRUE
  /\ queries = <<>>
  /\ pair = <<>>
  /\ resp = <<>>
  /\ sseHeaders = FALSE
  /\ out = <<>>
  /\ ended = FALSE
  /\ completionId = ""
  /\ idCalls = 0
  /\ backendRuns = <<>>
  /\ backend = "idle"
  /\ events = <<>>
  /\ extracted = <<>>
  /\ hasToolCalls = FALSE
  /\ sentToolCallIds = {}
  /\ collectedContent = <<>>
  /\ collectedToolCalls = <<>>
  /\ seenToolCallIds = {}
  /\ usage = ZeroUsage

\* an authorized POST /v1/chat/completions has entered the route handler
Init ==
  /\ pc = "route"
  /\ body \in Bodies
  /\ apiSecret = "s3cret"
  /\ config = DefaultConfig
  /\ req = [path |-> "/v1/chat/completions",
            authorization |-> "Bearer s3cret", json |-> "ok"]
  /\ Fresh

\* the options handed to queryClaudeAgent
agentOptions(request) ==
  [prompt |-> convertOpenAIToClaude(request).prompt,
   systemPrompt |-> convertOpenAIToClaude(request).systemPrompt,
   model |-> sdkModelOf(requestedModelOf(request)),
   noToolExecution |-> config.noToolExecution]

(***************************************************************************)
(* services/claude-agent.ts: queryClaudeAgent builds the options of the    *)
(* SDK's query() from its own options and the process configuration.       *)
(***************************************************************************)
\* mapPermissionMode(mode)
mapPermissionMode(mode) ==
  CASE mode = "acceptEdits" -> "acceptEdits"
    [] mode = "bypassPermissions" -> "bypassPermissions"
    [] mode = "plan" -> "plan"
    [] OTHER -> "default"

\* the tool names and inputs the SDK can ask the permission callback about
ToolNames == {"Read", "Edit", "Bash", "mcp__client-tools__get_weather"}
ToolInputs == {Obj(<<>>), Obj(<<<<"command", Str("rm -rf /")>>>>)}

\* the callback letting the Read tool run
denyCallback_AllowsRead ==
  [call \in ToolNames \X ToolInputs |->
     IF call[1] = "Read" THEN [behavior |-> "allow", updatedInput |-> call[2]]
     ELSE [behavior |-> "deny",
           message |-> "Tool execution disabled - returning tool call to client"]]

\* the callback installed as canUseTool, as the table of what it returns
denyCallback ==
  [call \in ToolNames \X ToolInputs |->
     [behavior |-> "deny",
      message |-> "Tool execution disabled - returning tool call to client"]]

\* queryOptions, with the properties that are set conditionally
queryOptions(options) ==
  [allowedTools |-> config.allowedTools,
   permissionMode |-> mapPermissionMode(config.permissionMode),
   maxTurns |-> IF options.noToolExecution THEN 1 ELSE config.maxTurns,
   cwd |-> config.workingDir]
  @@ (IF options.systemPrompt.defined /\ options.systemPrompt.text # ""
      THEN [systemPrompt |-> options.systemPrompt.text] ELSE EmptyObject)
  @@ (IF options.model # "" THEN [model |-> options.model] ELSE EmptyObject)
  @@ (IF options.noToolExecution THEN [canUseTool |-> denyCallback]
      ELSE EmptyObject)

\* query({ prompt, options })
sdkQuery(options) == [prompt |-> options.prompt, options |-> queryOptions(options)]

(***************************************************************************)
(* chatCompletionsRouter.post: the route handler up to its first await     *)
(***************************************************************************)
\* validateRequest throws: catch -> next(error) -> errorHandler
PostInvalid ==
  /\ pc = "route"
  /\ ~validateRequest(body).ok
  /\ resp' = Append(resp, errorHandler(validateRequest(body).error))
  /\ pc' = "done"
  /\ UNCHANGED <<reqVars, queries>>
  /\ UNCHANGED <<body, sseHeaders, out, ended, completionId, idCalls,
                 backendRuns, backend, events, extracted, streamVars,
                 collectVars>>

\* the conversion failure reported inside an event stream
PostConvertError_InStream ==
  /\ pc = "route"
  /\ validateRequest(body).ok
  /\ convertThrows(body)
  /\ sseHeaders' = TRUE
  /\ out' = sendDone(sendError(out, "Stream error"))
  /\ ended' = TRUE
  /\ pc' = "done"
  /\ UNCHANGED <<reqVars, queries>>
  /\ UNCHANGED <<body, resp, completionId, idCalls, backendRuns, backend,
                 events, extracted, streamVars, collectVars>>

\* convertOpenAIToClaude throws: catch -> next(error) -> errorHandler
PostConvertError ==
  /\ pc = "route"
  /\ validateRequest(body).ok
  /\ convertThrows(body)
  /\ resp' = Append(resp, errorHandler(convertError(body)))
  /\ pc' = "done"
  /\ UNCHANGED <<reqVars, queries>>
  /\ UNCHANGED <<body, sseHeaders, out, ended, completionId, idCalls,
                 backendRuns, backend, events, extracted, streamVars,
                 collectVars>>

\* body.stream: handleStreamingRequest up to the first pull of the iterator
PostStreaming ==
  /\ pc = "route"
  /\ validateRequest(body).ok
  /\ ~convertThrows(body)
  /\ Truthy(Get(body, "stream"))
  /\ \E id \in CompletionIds :
       /\ completionId' = id
       /\ out' = sendChunk(out, buildInitialChunk(id, requestedModelOf(body)))
  /\ idCalls' = idCalls + 1
  /\ sseHeaders' = TRUE
  /\ hasToolCalls' = FALSE
  /\ sentToolCallIds' = {}
  /\ backendRuns' = Append(backendRuns, agentOptions(body))
  /\ backend' = "running"
  /\ pc' = "streaming"
  /\ queries' = Append(queries, sdkQuery(agentOptions(body)))
  /\ UNCHANGED reqVars
  /\ UNCHANGED <<body, resp, ended, events, extracted, collectVars>>

\* otherwise: handleNonStreamingRequest up to the first pull of the iterator
PostNonStreaming ==
  /\ pc = "route"
  /\ validateRequest(body).ok
  /\ ~convertThrows(body)
  /\ ~Truthy(Get(body, "stream"))
  /\ \E id \in CompletionIds : completionId' = id
  /\ idCalls' = idCalls + 1
  /\ collectedContent' = <<>>
  /\ collectedToolCalls' = <<>>
  /\ usage' = ZeroUsage
  /\ seenToolCallIds' = {}
  /\ backendRuns' = Append(backendRuns, agentOptions(body))
  /\ backend' = "running"
  /\ pc' = "nonstreaming"
  /\ queries' = Append(queries, sdkQuery(agentOptions(body)))
  /\ UNCHANGED reqVars
  /\ UNCHANGED <<body, resp, sseHeaders, out, ended, events, extracted,
                 streamVars>>

(***************************************************************************)
(* handleStreamingRequest: the body of the for await loop and its exits    *)
(***************************************************************************)
\* the filter with its test inverted
newToolCallsOf_Inverted(toolCalls, sent) ==
  SelectSeq(toolCalls, LAMBDA tc : tc.id \in sent)

\* toolCalls.filter(tc => !sentToolCallIds.has(tc.id))
newToolCallsOf(toolCalls, sent) ==
  SelectSeq(toolCalls, LAMBDA tc : tc.id \notin sent)

\* the ids of a list of tool calls
IdsOf(toolCalls) == {toolCalls[i].id : i \in 1..Len(toolCalls)}

\* the loop body writing the tool-call chunk ahead of the content chunk
StreamMessage_ToolCallsFirst ==
  /\ pc = "streaming"
  /\ Len(events) < MaxEvents
  /\ \E message \in Events :
     \E gen \in [1..BlockCount(message) -> SynthIds] :
       LET model == requestedModelOf(body)
           ec == extractContent(message, gen)
           newToolCalls == newToolCallsOf(ec.toolCalls, sentToolCallIds)
           out1 == IF Len(ec.toolCalls) > 0 /\ Len(newToolCalls) > 0
                   THEN sendChunk(out, buildToolCallChunk(completionId, model,
                                                          newToolCalls, TRUE))
                   ELSE out
           out2 == IF ec.textContent # ""
                   THEN sendChunk(out1, buildContentChunk(completionId, model,
                                                          ec.textContent))
                   ELSE out1
       IN /\ events' = Append(events, message)
          /\ IF isAssistantMessage(message)
             THEN /\ out' = out2
                  /\ hasToolCalls' = (hasToolCalls \/ Len(ec.toolCalls) > 0)
                  /\ sentToolCallIds' =
                       IF Len(ec.toolCalls) > 0
                       THEN sentToolCallIds \cup IdsOf(newToolCalls)
                       ELSE sentToolCallIds
                  /\ extracted' = Append(extracted, ec.toolCalls)
             ELSE /\ UNCHANGED <<out, hasToolCalls, sentToolCallIds>>
                  /\ extracted' = Append(extracted, <<>>)
  /\ UNCHANGED <<reqVars, queries>>
  /\ UNCHANGED <<pc, body, resp, sseHeaders, ended, completionId, idCalls,
                 backendRuns, backend, collectVars>>

\* the iterator yields a message: one run of the loop body
StreamMessage ==
  /\ pc = "streaming"
  /\ Len(events) < MaxEvents
  /\ \E message \in Events :
     \E gen \in [1..BlockCount(message) -> SynthIds] :
       LET model == requestedModelOf(body)
           ec == extractContent(message, gen)
           newToolCalls == newToolCallsOf(ec.toolCalls, sentToolCallIds)
           out1 == IF ec.textContent # ""
                   THEN sendChunk(out, buildContentChunk(completionId, model,
                                                         ec.textContent))
                   ELSE out
           out2 == IF Len(ec.toolCalls) > 0 /\ Len(newToolCalls) > 0
                   THEN sendChunk(out1, buildToolCallChunk(completionId, model,
                                                           newToolCalls, TRUE))
                   ELSE out1
       IN /\ events' = Append(events, message)
          /\ IF isAssistantMessage(message)
             THEN /\ out' = out2
                  /\ hasToolCalls' = (hasToolCalls \/ Len(ec.toolCalls) > 0)
                  /\ sentToolCallIds' =
                       IF Len(ec.toolCalls) > 0
                       THEN sentToolCallIds \cup IdsOf(newToolCalls)
                       ELSE sentToolCallIds
                  /\ extracted' = Append(extracted, ec.toolCalls)
             ELSE /\ UNCHANGED <<out, hasToolCalls, sentToolCallIds>>
                  /\ extracted' = Append(extracted, <<>>)
  /\ UNCHANGED <<reqVars, queries>>
  /\ UNCHANGED <<pc, body, resp, sseHeaders, ended, completionId, idCalls,
                 backendRuns, backend, collectVars>>

\* the exit that writes the terminator without the final chunk
StreamComplete_NoFinal ==
  /\ pc = "streaming"
  /\ out' = sendDone(out)
  /\ ended' = TRUE
  /\ backend' = "ended"
  /\ pc' = "done"
  /\ UNCHANGED <<reqVars, queries>>
  /\ UNCHANGED <<body, resp, sseHeaders, completionId, idCalls, backendRuns,
                 events, extracted, streamVars, collectVars>>

\* the iterator is exhausted: final chunk, terminator, finally res.end()
StreamComplete ==
  /\ pc = "streaming"
  /\ out' = sendDone(sendChunk(out, buildFinalChunk(completionId,
                                     requestedModelOf(body), hasToolCalls)))
  /\ ended' = TRUE
  /\ backend' = "ended"
  /\ pc' = "done"
  /\ UNCHANGED <<reqVars, queries>>
  /\ UNCHANGED <<body, resp, sseHeaders, completionId, idCalls, backendRuns,
                 events, extracted, streamVars, collectVars>>

\* the catch writing the final chunk after the error chunk
StreamError_AlsoFinal ==
  /\ pc = "streaming"
  /\ \E error \in BackendErrors :
       out' = sendDone(sendChunk(
                sendError(out, IF error.isError THEN error.message
                               ELSE "Stream error"),
                buildFinalChunk(completionId, requestedModelOf(body),
                                hasToolCalls)))
  /\ ended' = TRUE
  /\ backend' = "raised"
  /\ pc' = "done"
  /\ UNCHANGED <<reqVars, queries>>
  /\ UNCHANGED <<body, resp, sseHeaders, completionId, idCalls, backendRuns,
                 events, extracted, streamVars, collectVars>>

\* the iterator raises: catch -> sendError, sendDone, finally res.end()
StreamError ==
  /\ pc = "streaming"
  /\ \E error \in BackendErrors :
       out' = sendDone(sendError(out, IF error.isError THEN error.message
                                      ELSE "Stream error"))
  /\ ended' = TRUE
  /\ backend' = "raised"
  /\ pc' = "done"
  /\ UNCHANGED <<reqVars, queries>>
  /\ UNCHANGED <<body, resp, sseHeaders, completionId, idCalls, backendRuns,
                 events, extracted, streamVars, collectVars>>

(***************************************************************************)
(* handleNonStreamingRequest: the body of the for await loop and its exits *)
(***************************************************************************)
\* the loop without the seenToolCallIds test
collectToolCalls_NoDedup(collected, seen, toolCalls) ==
  [collected |-> collected \o toolCalls, seen |-> seen \cup IdsOf(toolCalls)]

RECURSIVE collectToolCalls(_, _, _)
\* for (const tc of toolCalls) if (!seen.has(tc.id)) { push; add }
\* returns [collected, seen] after the loop
collectToolCalls(collected, seen, toolCalls) ==
  IF Len(toolCalls) = 0 THEN [collected |-> collected, seen |-> seen]
  ELSE IF toolCalls[1].id \notin seen
       THEN collectToolCalls(Append(collected, toolCalls[1]),
                             seen \cup {toolCalls[1].id}, Tail(toolCalls))
       ELSE collectToolCalls(collected, seen, Tail(toolCalls))

\* the join without the null for an empty collection
contentOf_EmptyString(collected) == JoinStr(collected, "\n\n")

\* collectedContent.length > 0 ? collectedContent.join("\n\n") : null
contentOf(collected) ==
  IF Len(collected) > 0 THEN JoinStr(collected, "\n\n") ELSE NullValue

\* the loop body adding each Result event's usage to the running usage
NonStreamMessage_SumsUsage ==
  /\ pc = "nonstreaming"
  /\ Len(events) < MaxEvents
  /\ \E message \in Events :
     \E gen \in [1..BlockCount(message) -> SynthIds] :
       LET ec == extractContent(message, gen)
           coll == collectToolCalls(collectedToolCalls, seenToolCallIds,
                                    ec.toolCalls)
       IN /\ events' = Append(events, message)
          /\ IF isAssistantMessage(message)
             THEN /\ collectedContent' =
                       IF ec.textContent # ""
                       THEN Append(collectedContent, ec.textContent)
                       ELSE collectedContent
                  /\ collectedToolCalls' = coll.collected
                  /\ seenToolCallIds' = coll.seen
                  /\ extracted' = Append(extracted, ec.toolCalls)
             ELSE /\ UNCHANGED <<collectedContent, collectedToolCalls,
                                 seenToolCallIds>>
                  /\ extracted' = Append(extracted, <<>>)
          /\ usage' = IF isResultMessage(message)
                      THEN [prompt_tokens |->
                              usage.prompt_tokens
                                + extractUsage(message).prompt_tokens,
                            completion_tokens |->
                              usage.completion_tokens
                                + extractUsage(message).completion_tokens,
                            total_tokens |->
                              usage.total_tokens
                                + extractUsage(message).total_tokens]
                      ELSE usage
  /\ UNCHANGED <<reqVars, queries>>
  /\ UNCHANGED <<pc, body, resp, sseHeaders, out, ended, completionId, idCalls,
                 backendRuns, backend, streamVars>>

\* the iterator yields a message: one run of the loop body
NonStreamMessage ==
  /\ pc = "nonstreaming"
  /\ Len(events) < MaxEvents
  /\ \E message \in Events :
     \E gen \in [1..BlockCount(message) -> SynthIds] :
       LET ec == extractContent(message, gen)
           coll == collectToolCalls(collectedToolCalls, seenToolCallIds,
                                    ec.toolCalls)
       IN /\ events' = Append(events, message)
          /\ IF isAssistantMessage(message)
             THEN /\ collectedContent' =
                       IF ec.textContent # ""
                       THEN Append(collectedContent, ec.textContent)
                       ELSE collectedContent
                  /\ collectedToolCalls' = coll.collected
                  /\ seenToolCallIds' = coll.seen
                  /\ extracted' = Append(extracted, ec.toolCalls)
             ELSE /\ UNCHANGED <<collectedContent, collectedToolCalls,
                                 seenToolCallIds>>
                  /\ extracted' = Append(extracted, <<>>)
          /\ usage' = IF isResultMessage(message) THEN extractUsage(message)
                      ELSE usage
  /\ UNCHANGED <<reqVars, queries>>
  /\ UNCHANGED <<pc, body, resp, sseHeaders, out, ended, completionId, idCalls,
                 backendRuns, backend, streamVars>>

\* the exit that sends the completion and then an error response as well
NonStreamComplete_ThenError ==
  /\ pc = "nonstreaming"
  /\ resp' = Append(Append(resp,
       [status |-> 200,
        body |-> buildChatCompletion(completionId, requestedModelOf(body),
                                     contentOf(collectedContent),
                                     collectedToolCalls, usage)]),
       errorHandler(PlainError("late failure")))
  /\ backend' = "ended"
  /\ pc' = "done"
  /\ UNCHANGED <<reqVars, queries>>
  /\ UNCHANGED <<body, sseHeaders, out, ended, completionId, idCalls,
                 backendRuns, events, extracted, streamVars, collectVars>>

\* the iterator is exhausted: build the completion and res.json it
NonStreamComplete ==
  /\ pc = "nonstreaming"
  /\ resp' = Append(resp,
       [status |-> 200,
        body |-> buildChatCompletion(completionId, requestedModelOf(body),
                                     contentOf(collectedContent),
                                     collectedToolCalls, usage)])
  /\ backend' = "ended"
  /\ pc' = "done"
  /\ UNCHANGED <<reqVars, queries>>
  /\ UNCHANGED <<body, sseHeaders, out, ended, completionId, idCalls,
                 backendRuns, events, extracted, streamVars, collectVars>>

\* the catch starting the backend run again instead of rethrowing
NonStreamError_Retry ==
  /\ pc = "nonstreaming"
  /\ backendRuns' = Append(backendRuns, agentOptions(body))
  /\ backend' = "running"
  /\ UNCHANGED <<pc, body, resp, sseHeaders, out, ended, completionId, idCalls,
                 events, extracted, hasToolCalls, sentToolCallIds,
                 collectedContent, collectedToolCalls, seenToolCallIds, usage,
                 req, apiSecret, config, connected, queries, pair>>

\* the iterator raises: rethrown, route catch -> next(error) -> errorHandler
NonStreamError ==
  /\ pc = "nonstreaming"
  /\ \E error \in BackendErrors : resp' = Append(resp, errorHandler(error))
  /\ backend' = "raised"
  /\ pc' = "done"
  /\ UNCHANGED <<reqVars, queries>>
  /\ UNCHANGED <<body, sseHeaders, out, ended, completionId, idCalls,
                 backendRuns, events, extracted, streamVars, collectVars>>

Next ==
  \/ PostInvalid
  \/ PostConvertError
  \/ PostStreaming
  \/ PostNonStreaming
  \/ StreamMessage
  \/ StreamComplete
  \/ StreamError
  \/ NonStreamMessage
  \/ NonStreamComplete
  \/ NonStreamError

Spec == Init /\ [][Next]_vars

(***************************************************************************)
(* Reading the event stream                                                *)
(***************************************************************************)
IsDone(f) == f.frame = "[DONE]"
IsErrorFrame(f) == f.frame = "json" /\ "error" \in DOMAIN f.json
IsChunk(f) == f.frame = "json" /\ "choices" \in DOMAIN f.json
DeltaOf(f) == f.json.choices[1].delta
FinishReasonOf(f) == f.json.choices[1].finish_reason
IsToolCallChunk(f) == IsChunk(f) /\ "tool_calls" \in DOMAIN DeltaOf(f)
IsContentChunk(f) == IsChunk(f) /\ "content" \in DOMAIN DeltaOf(f)
IsFinalChunk(f) == IsChunk(f) /\ DeltaOf(f) = EmptyObject

DonePositions == {i \in 1..Len(out) : IsDone(out[i])}
ErrorPositions == {i \in 1..Len(out) : IsErrorFrame(out[i])}

(***************************************************************************)
(* C1  The stream of every streaming request ends with exactly one         *)
(* terminator: `data: [DONE]` is written at most once, it is the last      *)
(* frame ever written, the response is ended with it, and a finished       *)
(* streaming request (backend ended or raised) has written it.             *)
(***************************************************************************)
StreamEndsWithOneDone ==
  /\ Cardinality(DonePositions) <= 1
  /\ DonePositions \subseteq {Len(out)}
  /\ (DonePositions # {}) <=> ended
  /\ (sseHeaders /\ pc = "done") => (DonePositions = {Len(out)} /\ ended)

\* a stream that raised after two messages and is finished
StreamEndsWithOneDone_witness ==
  /\ sseHeaders /\ pc = "done" /\ backend = "raised"
  /\ Len(events) = 2
  /\ IsDone(out[Len(out)])

(***************************************************************************)
(* C2  When the backend raises in streaming mode, the step that handles it *)
(* keeps every frame already written, appends exactly one error chunk      *)
(* (type internal_error, code stream_error) and then the terminator, ends  *)
(* the response and sends no JSON error response.                          *)
(***************************************************************************)
StreamErrorStep ==
  (sseHeaders /\ backend = "running" /\ backend' = "raised") =>
    /\ Len(out') = Len(out) + 2
    /\ SubSeq(out', 1, Len(out)) = out
    /\ ErrorPositions = {}
    /\ IsErrorFrame(out'[Len(out) + 1])
    /\ out'[Len(out) + 1].json.error.type = "internal_error"
    /\ out'[Len(out) + 1].json.error.code = "stream_error"
    /\ IsDone(out'[Len(out) + 2])
    /\ ended' /\ resp' = resp /\ resp = <<>>

\* C2: every step in which the backend of a stream raises is such a step
ErrorChunkThenDone == [][StreamErrorStep]_vars

\* the backend raised after a content chunk and a tool-call chunk were sent
ErrorChunkThenDone_witness ==
  /\ sseHeaders /\ backend = "raised"
  /\ Len(events) >= 1
  /\ \E i \in 1..Len(out) : IsContentChunk(out[i])
  /\ \E i \in 1..Len(out) : IsToolCallChunk(out[i])
  /\ ErrorPositions = {Len(out) - 1}

(***************************************************************************)
(* C3  In a streaming response no tool-call id occurs in more than one     *)
(* tool-call delta entry, whether the two entries are in different chunks  *)
(* or in the same chunk.                                                   *)
(***************************************************************************)
\* <<i, k>>: entry k of the tool-call chunk written as frame i
ToolCallEntries ==
  UNION {{<<i, k>> : k \in 1..Len(DeltaOf(out[i]).tool_calls)} :
           i \in {j \in 1..Len(out) : IsToolCallChunk(out[j])}}

EntryOf(e) == DeltaOf(out[e[1]]).tool_calls[e[2]]

EachToolCallIdSentOnce ==
  \A e1, e2 \in ToolCallEntries : e1 # e2 => EntryOf(e1).id # EntryOf(e2).id

(***************************************************************************)
(* C4  In non-streaming mode the collected tool calls (and the tool_calls  *)
(* of the completion) hold each id once, in first-seen order, and the      *)
(* entry kept for an id is the first extracted tool call with that id.     *)
(***************************************************************************)
RECURSIVE Concat(_)
Concat(seqs) == IF Len(seqs) = 0 THEN <<>> ELSE seqs[1] \o Concat(Tail(seqs))

\* every tool call extracted so far, in extraction order
AllExtracted == Concat(extracted)

FirstPos(id) ==
  CHOOSE i \in 1..Len(AllExtracted) :
    /\ AllExtracted[i].id = id
    /\ \A k \in 1..(i - 1) : AllExtracted[k].id # id

NonStreaming == backend # "idle" /\ ~sseHeaders

NonStreamingFirstWins ==
  NonStreaming =>
    /\ \A i, j \in 1..Len(collectedToolCalls) :
         i # j => collectedToolCalls[i].id # collectedToolCalls[j].id
    /\ IdsOf(collectedToolCalls) = IdsOf(AllExtracted)
    /\ \A i \in 1..Len(collectedToolCalls) :
         collectedToolCalls[i] = AllExtracted[FirstPos(collectedToolCalls[i].id)]
    /\ \A i, j \in 1..Len(collectedToolCalls) :
         i < j => FirstPos(collectedToolCalls[i].id)
                    < FirstPos(collectedToolCalls[j].id)
    /\ (backend = "ended" /\ Len(collectedToolCalls) > 0) =>
         resp[1].body.choices[1].message.tool_calls = collectedToolCalls

\* a completion whose backend sent toolu_1 twice, first as get_weather and
\* later as get_time, and another id in between
NonStreamingFirstWins_witness ==
  /\ NonStreaming /\ backend = "ended"
  /\ Len(AllExtracted) >= 3
  /\ AllExtracted[1].id = "toolu_1"
  /\ AllExtracted[1].function.name = "get_weather"
  /\ AllExtracted[2].id = "toolu_2"
  /\ AllExtracted[3].id = "toolu_1"
  /\ AllExtracted[3].function.name = "get_time"
  /\ Len(resp[1].body.choices[1].message.tool_calls) = 2

(***************************************************************************)
(* C5  Tool-call identifiers are stable within one response: a tool_use    *)
(* block with a backend id is given that id, and equal tool_use blocks     *)
(* extracted from two events of the response are given the same id.        *)
(***************************************************************************)
\* the position in the toolCalls array of the tool call built from block p
ToolIndex(content, p) ==
  Cardinality({k \in 1..p : IsToolUseBlock(content[k])})

\* <<i, p>>: block p of event i is a tool_use block that was extracted
ExtractedBlocks ==
  UNION {{<<i, p>> : p \in {q \in 1..BlockCount(events[i]) :
                               IsToolUseBlock(events[i].message.content[q])}} :
           i \in {j \in 1..Len(events) : isAssistantMessage(events[j])}}

BlockAt(b) == events[b[1]].message.content[b[2]]
IdGiven(b) == extracted[b[1]][ToolIndex(events[b[1]].message.content, b[2])].id

ToolCallIdsStable ==
  /\ \A b \in ExtractedBlocks :
       (Has(BlockAt(b), "id") /\ BlockAt(b).id # "") => IdGiven(b) = BlockAt(b).id
  /\ \A b1, b2 \in ExtractedBlocks :
       BlockAt(b1) = BlockAt(b2) => IdGiven(b1) = IdGiven(b2)

(***************************************************************************)
(* C6  In streaming mode hasToolCalls is true exactly when some tool-call  *)
(* id has been sent, after every processed event; so the final chunk has   *)
(* finish_reason tool_calls exactly when a tool-call entry was written to  *)
(* the stream, and stop otherwise.                                         *)
(***************************************************************************)
FinalPositions == {i \in 1..Len(out) : IsFinalChunk(out[i])}

FinishReasonMatchesSent ==
  sseHeaders =>
    /\ hasToolCalls <=> (sentToolCallIds # {})
    /\ sentToolCallIds = {EntryOf(e).id : e \in ToolCallEntries}
    /\ \A i \in FinalPositions :
         /\ FinishReasonOf(out[i]) \in {"tool_calls", "stop"}
         /\ (FinishReasonOf(out[i]) = "tool_calls") <=> (ToolCallEntries # {})

\* a finished stream whose second event repeated the only tool call: one
\* entry was sent and the final chunk says tool_calls
FinishReasonMatchesSent_witness ==
  /\ sseHeaders /\ backend = "ended"
  /\ Len(events) = 2
  /\ Len(extracted[1]) = 1 /\ extracted[2] = extracted[1]
  /\ Cardinality(ToolCallEntries) = 1
  /\ \E i \in FinalPositions : FinishReasonOf(out[i]) = "tool_calls"

(***************************************************************************)
(* C7  The content of a non-streaming completion is the non-empty texts    *)
(* extracted from the assistant events, in event order, joined by a blank  *)
(* line, and null (never "") when no event contributed text; finish_reason *)
(* is tool_calls iff the completion has a tool_calls list, which is        *)
(* present iff some tool call was extracted.                               *)
(***************************************************************************)
\* the non-empty textContent of the assistant events, in event order
ExpectedTexts ==
  SelectSeq([i \in 1..Len(events) |->
               IF isAssistantMessage(events[i])
               THEN extractContent(events[i],
                      [k \in 1..BlockCount(events[i]) |-> "call_A"]).textContent
               ELSE ""],
            LAMBDA t : t # "")

CompletionContentAndFinish ==
  (NonStreaming /\ backend = "ended") =>
    LET choice == resp[1].body.choices[1] IN
    /\ Len(resp) = 1 /\ resp[1].status = 200
    /\ choice.message.content =
         IF Len(ExpectedTexts) = 0 THEN NullValue
         ELSE JoinStr(ExpectedTexts, "\n\n")
    /\ choice.message.content # ""
    /\ ("tool_calls" \in DOMAIN choice.message) <=> (Len(AllExtracted) > 0)
    /\ ("tool_calls" \in DOMAIN choice.message) =>
         Len(choice.message.tool_calls) > 0
    /\ choice.finish_reason =
         IF "tool_calls" \in DOMAIN choice.message THEN "tool_calls" ELSE "stop"

\* a completion built from two text events and one event without text
CompletionContentAndFinish_witness ==
  /\ NonStreaming /\ backend = "ended"
  /\ Len(events) = 3
  /\ resp[1].body.choices[1].message.content = "Hello\n\na\nb"
  /\ resp[1].body.choices[1].finish_reason = "stop"

(***************************************************************************)
(* C8  The usage of a non-streaming request always satisfies total_tokens  *)
(* = prompt_tokens + completion_tokens, in the completion too; it is       *)
(* {0,0,0} while no Result event was seen and after a Result event without *)
(* a usage field.                                                          *)
(***************************************************************************)
ResultPositions == {i \in 1..Len(events) : isResultMessage(events[i])}

LastResult ==
  events[CHOOSE i \in ResultPositions : \A k \in ResultPositions : k <= i]

UsageTotalIsSum ==
  NonStreaming =>
    /\ usage.total_tokens = usage.prompt_tokens + usage.completion_tokens
    /\ (ResultPositions = {}) => usage = ZeroUsage
    /\ (ResultPositions # {} /\ ~Has(LastResult, "usage")) => usage = ZeroUsage
    /\ (backend = "ended") =>
         /\ resp[1].body.usage = usage
         /\ resp[1].body.usage.total_tokens =
              resp[1].body.usage.prompt_tokens
                + resp[1].body.usage.completion_tokens

\* a completion after two Result events, the last with both token counts
UsageTotalIsSum_witness ==
  /\ NonStreaming /\ backend = "ended"
  /\ Cardinality(ResultPositions) = 2
  /\ resp[1].body.usage =
       [prompt_tokens |-> 5, completion_tokens |-> 2, total_tokens |-> 7]

(***************************************************************************)
(* C9  (as stated) One completion identifier is generated per request and  *)
(* every chunk written to the stream, the error chunk included, carries    *)
(* it.                                                                     *)
(***************************************************************************)
AllFramesCarryCompletionId ==
  /\ idCalls <= 1
  /\ \A i \in 1..Len(out) :
       out[i].frame = "json" =>
         ("id" \in DOMAIN out[i].json /\ out[i].json.id = completionId)

(***************************************************************************)
(* C9  (amended) One completion identifier is generated per request,       *)
(* exactly once, and every completion chunk of the stream (initial,        *)
(* content, tool-call, final) carries it; the error chunk is an error      *)
(* object without an identifier.                                           *)
(***************************************************************************)
ChunksCarryCompletionId ==
  /\ idCalls <= 1
  /\ (backend # "idle") => (idCalls = 1 /\ completionId \in CompletionIds)
  /\ \A i \in 1..Len(out) :
       out[i].frame = "json" =>
         /\ IsChunk(out[i]) \/ IsErrorFrame(out[i])
         /\ IsChunk(out[i]) => out[i].json.id = completionId
         /\ IsErrorFrame(out[i]) => "id" \notin DOMAIN out[i].json

\* a stream with an initial, a content and a tool-call chunk whose backend
\* then raised
ChunksCarryCompletionId_witness ==
  /\ sseHeaders /\ backend = "raised"
  /\ Len(out) = 5
  /\ IsContentChunk(out[2])
  /\ IsToolCallChunk(out[3])
  /\ IsErrorFrame(out[4])

(***************************************************************************)
(* C10  A request whose body fails validation never reaches the backend:   *)
(* nothing is generated, invoked or streamed for it, and its one response  *)
(* is 400 invalid_request_error with a message that names an offending     *)
(* field (`messages` for an empty messages array).                         *)
(***************************************************************************)
Contains(s, sub) ==
  \E i \in 1..(Len(s) - Len(sub) + 1) : SubSeq(s, i, i + Len(sub) - 1) = sub

\* the fields of a body that break the shape a request must have
OffendingFields(b) ==
  IF b.t # "object" /\ b.t # "array" THEN {"Request body"}
  ELSE IF Get(b, "messages").t # "array" \/ Len(Get(b, "messages").v) = 0
  THEN {"messages"}
  ELSE LET ms == Get(b, "messages").v IN
    {"messages[" \o ToString(i - 1) \o "]" :
        i \in {k \in 1..Len(ms) : ms[k].t \notin {"object", "array"}}}
    \cup
    {"messages[" \o ToString(i - 1) \o "].role" :
        i \in {k \in 1..Len(ms) :
                 /\ ms[k].t \in {"object", "array"}
                 /\ Get(ms[k], "role") \notin {Str(r) : r \in Roles}}}
    \cup
    {"messages[" \o ToString(i - 1) \o "].content" :
        i \in {k \in 1..Len(ms) :
                 /\ ms[k].t \in {"object", "array"}
                 /\ Get(ms[k], "content").t \notin {"string", "null", "array"}}}

InvalidNeverReachesBackend ==
  (OffendingFields(body) # {}) =>
    /\ backendRuns = <<>> /\ backend = "idle"
    /\ idCalls = 0 /\ ~sseHeaders /\ out = <<>>
    /\ Len(resp) <= 1
    /\ (pc = "done") =>
         /\ Len(resp) = 1
         /\ resp[1].status = 400
         /\ resp[1].body.error.type = "invalid_request_error"
         /\ \E f \in OffendingFields(body) :
              Contains(resp[1].body.error.message, f \o " ")
         /\ (Get(body, "messages") = Arr(<<>>)) =>
              Contains(resp[1].body.error.message, "messages")

\* a stream=true request with an empty messages array was answered
InvalidNeverReachesBackend_witness ==
  /\ pc = "done"
  /\ Get(body, "messages") = Arr(<<>>)
  /\ Truthy(Get(body, "stream"))
  /\ Len(resp) = 1 /\ resp[1].status = 400

(***************************************************************************)
(* The route handler over message lists: every list of at most MaxMsgs     *)
(* messages drawn from a pool of well-formed and malformed messages, run   *)
(* through the handler up to its first await (validateRequest,             *)
(* convertOpenAIToClaude, and the start of the backend run).               *)
(***************************************************************************)
MaxMsgs == 3

\* one entry of an assistant message's tool_calls
ToolCallValue(name, arguments) ==
  Obj(<<<<"id", Str("call_1")>>, <<"type", Str("function")>>,
        <<"function", Obj(<<<<"name", Str(name)>>,
                            <<"arguments", Str(arguments)>>>>)>>>>)

TextPart(text) == Obj(<<<<"type", Str("text")>>, <<"text", Str(text)>>>>)
ImagePart ==
  Obj(<<<<"type", Str("image_url")>>,
        <<"image_url", Obj(<<<<"url", Str("http://x/y.png")>>>>)>>>>)

SystemMsgs ==
  { Msg("system", Str("S1")), Msg("system", Str("S2")), Msg("system", Str("")) }

UserMsgs ==
  { Msg("user", Str("U1")), Msg("user", Str("U2")),
    Msg("user", Arr(<<TextPart("U3"), ImagePart, TextPart("U4")>>)),
    Msg("user", Arr(<<Null>>)) }

AssistantMsgs ==
  { Msg("assistant", Str("A1")),
    Obj(<<<<"role", Str("assistant")>>, <<"content", Null>>,
          <<"tool_calls", Arr(<<ToolCallValue("get_weather", "{}")>>)>>>>) }

ToolMsgs ==
  { Obj(<<<<"role", Str("tool")>>, <<"content", Str("T1")>>,
          <<"tool_call_id", Str("call_1")>>>>),
    Msg("tool", Str("T2")) }

\* messages validateRequest has to turn down
MalformedMsgs ==
  { Null, Str("Hi"), Arr(<<>>),
    Obj(<<<<"role", Str("assistant")>>,
          <<"tool_calls", Arr(<<ToolCallValue("get_weather", "{}")>>)>>>>),
    Obj(<<<<"content", Str("Hi")>>>>),
    Msg("developer", Str("D1")),
    Msg("user", Num(7)),
    Msg("user", Obj(<<>>)) }

MessagePool ==
  SystemMsgs \cup UserMsgs \cup AssistantMsgs \cup ToolMsgs \cup MalformedMsgs

MessageLists == UNION {[1..n -> MessagePool] : n \in 0..MaxMsgs}

RouteBodies ==
  {Body(<<<<"messages", Arr(ms)>>>>) : ms \in MessageLists}
  \cup {Body(<<<<"messages", Arr(<<m>>)>>, <<"stream", Bool(TRUE)>>>>) :
          m \in MessagePool}
  \cup { Undefined, Null, Str("hello"), Num(0), Arr(<<>>), Body(<<>>),
         Body(<<<<"messages", Str("Hi")>>>>), Body(<<<<"messages", Null>>>>),
         Body(<<<<"messages", Obj(<<>>)>>>>) }

\* the request the authentication lets through to the chat completions route
AuthorizedChat ==
  [path |-> "/v1/chat/completions", authorization |-> "Bearer s3cret",
   json |-> "ok"]

InitRoute ==
  /\ pc = "route"
  /\ body \in RouteBodies
  /\ apiSecret = "s3cret"
  /\ config = DefaultConfig
  /\ req = AuthorizedChat
  /\ Fresh

NextRoute ==
  \/ PostInvalid
  \/ PostConvertError
  \/ PostStreaming
  \/ PostNonStreaming

SpecRoute == InitRoute /\ [][NextRoute]_vars

\* the messages of the request body, as a sequence
MessagesOf(b) == Get(b, "messages").v

(***************************************************************************)
(* C11  validateRequest accepts a body exactly when it is an object whose  *)
(* messages is a non-empty array of objects, each with a role among        *)
(* system, user, assistant, tool and a content that is a string, null or   *)
(* an array; a message without a content field is turned down with the     *)
(* 400 invalid_request_error response.                                     *)
(***************************************************************************)
WellFormedMessage(m) ==
  /\ m.t = "object"
  /\ \E r \in {"system", "user", "assistant", "tool"} : Get(m, "role") = Str(r)
  /\ \/ Get(m, "content").t = "string"
     \/ Get(m, "content") = Null
     \/ Get(m, "content").t = "array"

WellFormedBody(b) ==
  /\ b.t = "object"
  /\ Get(b, "messages").t = "array"
  /\ Len(MessagesOf(b)) > 0
  /\ \A i \in 1..Len(MessagesOf(b)) : WellFormedMessage(MessagesOf(b)[i])

\* some message of the body is an object with a role and no content field
LacksContent(b) ==
  /\ b.t = "object"
  /\ Get(b, "messages").t = "array"
  /\ \E i \in 1..Len(MessagesOf(b)) :
       /\ MessagesOf(b)[i].t = "object"
       /\ \A j \in 1..Len(MessagesOf(b)[i].v) : MessagesOf(b)[i].v[j][1] # "content"

\* the request was answered with the InvalidRequest response
AnsweredInvalidRequest ==
  /\ Len(resp) = 1
  /\ resp[1].status = 400
  /\ resp[1].body.error.type = "invalid_request_error"

ValidationAcceptsWellFormed ==
  /\ validateRequest(body).ok <=> WellFormedBody(body)
  /\ (pc # "route") => (AnsweredInvalidRequest <=> ~WellFormedBody(body))
  /\ (pc # "route" /\ LacksContent(body)) =>
       /\ AnsweredInvalidRequest
       /\ backendRuns = <<>>

\* an assistant message carrying only tool_calls, after a valid message, was
\* turned down
ValidationAcceptsWellFormed_witness ==
  /\ pc = "done"
  /\ Get(body, "messages").t = "array"
  /\ Len(MessagesOf(body)) = 2
  /\ WellFormedMessage(MessagesOf(body)[1])
  /\ Get(MessagesOf(body)[2], "role") = Str("assistant")
  /\ Get(MessagesOf(body)[2], "tool_calls").t = "array"
  /\ Get(MessagesOf(body)[2], "content") = Undefined
  /\ AnsweredInvalidRequest
  /\ Contains(resp[1].body.error.message, "messages[1].content")

(***************************************************************************)
(* C12  A request starts the backend run at most once, whether the run     *)
(* ends, raises at some point, streams or not: once the run has raised the *)
(* request is over and no second run was started.                          *)
(***************************************************************************)
AtMostOneBackendRun ==
  /\ Len(backendRuns) <= 1
  /\ (backend # "idle") => Len(backendRuns) = 1
  /\ (backend \in {"raised", "ended"}) => pc = "done"
  /\ (pc = "done") => ~ENABLED Next

\* a run raised after two events, in either mode
AtMostOneBackendRun_witness ==
  /\ backend = "raised"
  /\ Len(events) >= 2
  /\ Len(backendRuns) = 1
  /\ pc = "done"

(***************************************************************************)
(* C13  Without streaming, a backend run that raises after any number of   *)
(* events is answered by one response: status 500 with the fixed message   *)
(* "An internal error occurred", never the message of the backend's error, *)
(* and with nothing but the error object in it, so none of the text or     *)
(* tool calls collected before the failure.                                *)
(***************************************************************************)
NonStreamFailureIsGeneric500 ==
  (NonStreaming /\ backend = "raised") =>
    /\ Len(resp) = 1
    /\ resp[1].status = 500
    /\ DOMAIN resp[1].body = {"error"}
    /\ resp[1].body.error =
         [message |-> "An internal error occurred", type |-> "internal_error",
          param |-> NullValue, code |-> "internal_error"]
    /\ \A e \in BackendErrors :
         e.isError => resp[1].body.error.message # e.message
    /\ \A i \in 1..Len(collectedContent) :
         ~Contains(resp[1].body.error.message, collectedContent[i])
    /\ out = <<>> /\ ~ended

\* the run raised an Error after text and a tool call had been collected
NonStreamFailureIsGeneric500_witness ==
  /\ NonStreaming
  /\ backend = "raised"
  /\ Len(collectedContent) > 0
  /\ Len(collectedToolCalls) > 0
  /\ Len(resp) = 1

(***************************************************************************)
(* server.ts, middleware/auth.ts, routes/health.ts, routes/models.ts: the  *)
(* middleware chain a request runs through before the route handler:       *)
(* express.json, requestLogger, authMiddleware, the routers, errorHandler. *)
(***************************************************************************)
RECURSIVE SplitSpace(_)
\* s.split(" ")
SplitSpace(s) ==
  IF \E i \in 1..Len(s) : SubSeq(s, i, i) = " "
  THEN LET i == CHOOSE j \in 1..Len(s) :
                  /\ SubSeq(s, j, j) = " "
                  /\ \A k \in 1..(j - 1) : SubSeq(s, k, k) # " "
       IN <<SubSeq(s, 1, i - 1)>> \o SplitSpace(SubSeq(s, i + 1, Len(s)))
  ELSE <<s>>

\* timingSafeEqual(a, b): equal lengths and no differing character
timingSafeEqual(a, b) ==
  /\ Len(a) = Len(b)
  /\ \A i \in 1..Len(a) : SubSeq(a, i, i) = SubSeq(b, i, i)

\* res.status(401).json({ error: { message, type, param: null, code } })
Unauthorized(message, code) ==
  [status |-> 401,
   body |-> [error |-> [message |-> message, type |-> "invalid_request_error",
                        param |-> NullValue, code |-> code]]]

\* authMiddleware(req, res, next): [next |-> TRUE] when it calls next(), else
\* the response it sends
authMiddleware(request, secret) ==
  IF request.path = "/health" THEN [next |-> TRUE]
  ELSE IF request.authorization = NoHeader \/ request.authorization = ""
  THEN [next |-> FALSE,
        response |-> Unauthorized("Missing Authorization header",
                                  "missing_authorization")]
  ELSE LET parts == SplitSpace(request.authorization) IN
    IF Len(parts) # 2 \/ parts[1] # "Bearer"
    THEN [next |-> FALSE,
          response |->
            Unauthorized("Invalid Authorization header format. Expected 'Bearer <token>'",
                         "invalid_authorization_format")]
    ELSE IF ~timingSafeEqual(parts[2], secret)
    THEN [next |-> FALSE,
          response |-> Unauthorized("Invalid API key", "invalid_api_key")]
    ELSE [next |-> TRUE]

\* the values of API_SECRET the server is configured with
Secrets == {"s3cret", "top secret"}

\* GET /health, GET /v1/models, POST /v1/chat/completions
Paths == {"/health", "/v1/models", "/v1/chat/completions"}

\* the Authorization headers a client sends to a server whose secret is s
HeadersFor(s) ==
  { NoHeader, "", "Bearer " \o s, "Bearer wrong", "bearer " \o s,
    "Basic " \o s, "Bearer", "Bearer  " \o s, s }

Requests(s) ==
  [path : Paths, authorization : HeadersFor(s), json : {"ok", "malformed"}]

\* MODELS
ModelList ==
  [object |-> "list",
   data |-> <<[id |-> "claude-opus-4-5", object |-> "model",
               owned_by |-> "anthropic"],
              [id |-> "claude-sonnet-4-5", object |-> "model",
               owned_by |-> "anthropic"],
              [id |-> "claude-haiku-4-5", object |-> "model",
               owned_by |-> "anthropic"]>>]

\* the bodies sent to the chat completions route
ServerBodies ==
  { Body(<<<<"model", Str("claude-sonnet-4-5")>>,
           <<"messages", Arr(<<Msg("user", Str("Hi"))>>)>>>>),
    Body(<<<<"model", Str("opus")>>,
           <<"messages", Arr(<<Msg("user", Str("Hi"))>>)>>,
           <<"stream", Bool(TRUE)>>>>),
    Body(<<<<"messages", Arr(<<Msg("user", Arr(<<Null>>))>>)>>>>),
    Body(<<<<"messages", Arr(<<>>)>>>>) }

InitServer ==
  /\ pc = "received"
  /\ apiSecret \in Secrets
  /\ config = DefaultConfig
  /\ req \in Requests(apiSecret)
  /\ body \in IF req.path = "/v1/chat/completions" /\ req.json = "ok"
              THEN ServerBodies ELSE {Undefined}
  /\ Fresh

\* express.json cannot parse the body: next(err) -> errorHandler
BodyParseError ==
  /\ pc = "received"
  /\ req.json = "malformed"
  /\ resp' = Append(resp, errorHandler(JsonSyntaxError))
  /\ pc' = "done"
  /\ UNCHANGED <<reqVars, queries>>
  /\ UNCHANGED <<body, sseHeaders, out, ended, completionId, idCalls,
                 backendRuns, backend, events, extracted, streamVars,
                 collectVars>>

\* authMiddleware answers 401 and does not call next()
AuthReject ==
  /\ pc = "received"
  /\ req.json = "ok"
  /\ ~authMiddleware(req, apiSecret).next
  /\ resp' = Append(resp, authMiddleware(req, apiSecret).response)
  /\ pc' = "done"
  /\ UNCHANGED <<reqVars, queries>>
  /\ UNCHANGED <<body, sseHeaders, out, ended, completionId, idCalls,
                 backendRuns, backend, events, extracted, streamVars,
                 collectVars>>

\* healthRouter.get("/health")
HealthCheck ==
  /\ pc = "received"
  /\ req.json = "ok"
  /\ authMiddleware(req, apiSecret).next
  /\ req.path = "/health"
  /\ resp' = Append(resp, [status |-> 200, body |-> [status |-> "ok"]])
  /\ pc' = "done"
  /\ UNCHANGED <<reqVars, queries>>
  /\ UNCHANGED <<body, sseHeaders, out, ended, completionId, idCalls,
                 backendRuns, backend, events, extracted, streamVars,
                 collectVars>>

\* modelsRouter.get("/models"), mounted at /v1
ListModels ==
  /\ pc = "received"
  /\ req.json = "ok"
  /\ authMiddleware(req, apiSecret).next
  /\ req.path = "/v1/models"
  /\ resp' = Append(resp, [status |-> 200, body |-> ModelList])
  /\ pc' = "done"
  /\ UNCHANGED <<reqVars, queries>>
  /\ UNCHANGED <<body, sseHeaders, out, ended, completionId, idCalls,
                 backendRuns, backend, events, extracted, streamVars,
                 collectVars>>

\* the chain hands the request to chatCompletionsRouter.post
ChatRoute ==
  /\ pc = "received"
  /\ req.json = "ok"
  /\ authMiddleware(req, apiSecret).next
  /\ req.path = "/v1/chat/completions"
  /\ pc' = "route"
  /\ UNCHANGED <<reqVars, queries>>
  /\ UNCHANGED <<body, resp, sseHeaders, out, ended, completionId, idCalls,
                 backendRuns, backend, events, extracted, streamVars,
                 collectVars>>

NextServer ==
  \/ BodyParseError
  \/ AuthReject
  \/ HealthCheck
  \/ ListModels
  \/ ChatRoute
  \/ Next

SpecServer == InitServer /\ [][NextServer]_vars

\* the request carries the header `Authorization: Bearer <secret>`
HasBearerSecret == req.authorization = "Bearer " \o apiSecret

\* the response is a 401 with the error object of the OpenAI API
Answered401 ==
  /\ Len(resp) = 1
  /\ resp[1].status = 401
  /\ DOMAIN resp[1].body = {"error"}
  /\ DOMAIN resp[1].body.error = {"message", "type", "param", "code"}

(***************************************************************************)
(* C14  A request to a route other than /health without the header         *)
(* `Authorization: Bearer <secret>` never reaches the route handler or the *)
(* backend and is answered 401 with an OpenAI-shaped error, whatever its   *)
(* body is, a body that is not JSON included.                              *)
(***************************************************************************)
UnauthenticatedGets401 ==
  (req.path # "/health" /\ ~HasBearerSecret) =>
    /\ pc \in {"received", "done"}
    /\ backendRuns = <<>> /\ backend = "idle" /\ out = <<>>
    /\ (pc = "done") => Answered401

(***************************************************************************)
(* C15  authMiddleware calls next() exactly when the path is /health or    *)
(* the Authorization header is `Bearer ` followed by the configured        *)
(* secret, whatever that secret is; /v1/models without a header is         *)
(* answered 401 missing_authorization and /health without a header 200.    *)
(***************************************************************************)
AuthPassesIffBearerSecret ==
  /\ authMiddleware(req, apiSecret).next <=>
       (req.path = "/health" \/ HasBearerSecret)
  /\ (pc = "done" /\ req.json = "ok" /\ req.path = "/v1/models"
        /\ req.authorization = NoHeader) =>
       /\ Answered401
       /\ resp[1].body.error.code = "missing_authorization"
  /\ (pc = "done" /\ req.json = "ok" /\ req.path = "/health"
        /\ req.authorization = NoHeader) =>
       /\ Len(resp) = 1
       /\ resp[1].status = 200

(***************************************************************************)
(* Reading the conversion off the backend run the handler started          *)
(***************************************************************************)
\* the handler converted the request and started the backend with the result
Flattened == Len(backendRuns) = 1

\* the messages of the body with the given role test, in order
SystemMessages == SelectSeq(MessagesOf(body), LAMBDA m : Get(m, "role") = Str("system"))
NonSystemMessages ==
  SelectSeq(MessagesOf(body), LAMBDA m : Get(m, "role") # Str("system"))

\* the extracted text of a message
TextOf(m) == getTextContent(Get(m, "content"))

IsUser(m) == Get(m, "role") = Str("user")

\* s ends with suffix
EndsWith(s, suffix) ==
  /\ Len(suffix) <= Len(s)
  /\ SubSeq(s, Len(s) - Len(suffix) + 1, Len(s)) = suffix

(***************************************************************************)
(* C16  For a message list with two or more system messages, those with an *)
(* empty text included, systemPrompt is the texts of all system messages   *)
(* in their order, joined by "\n\n".                                       *)
(***************************************************************************)
SystemPromptIsJoin ==
  (Flattened /\ Len(SystemMessages) >= 2) =>
    /\ backendRuns[1].systemPrompt.defined
    /\ backendRuns[1].systemPrompt.text =
         JoinStr([i \in 1..Len(SystemMessages) |-> TextOf(SystemMessages[i])],
                 "\n\n")

(***************************************************************************)
(* C17  System messages, wherever they stand in the list, go to            *)
(* systemPrompt only: the prompt is what the conversion makes of the list  *)
(* without its system messages, and no non-empty system text occurs in it. *)
(***************************************************************************)
SystemOnlyInSystemPrompt ==
  Flattened =>
    /\ backendRuns[1].prompt =
         convertOpenAIToClaude(
           Body(<<<<"messages", Arr(NonSystemMessages)>>>>)).prompt
    /\ \A i \in 1..Len(SystemMessages) :
         TextOf(SystemMessages[i]) # "" =>
           ~Contains(backendRuns[1].prompt, TextOf(SystemMessages[i]))
    /\ ~Contains(backendRuns[1].prompt, "System: ")

\* a system message stood between two user messages
SystemOnlyInSystemPrompt_witness ==
  /\ Flattened
  /\ Len(MessagesOf(body)) = 3
  /\ IsUser(MessagesOf(body)[1])
  /\ MessagesOf(body)[2] = Msg("system", Str("S1"))
  /\ IsUser(MessagesOf(body)[3])
  /\ backendRuns[1].systemPrompt.text = "S1"
  /\ Contains(backendRuns[1].prompt, "Current request:")

(***************************************************************************)
(* C18  When the non-system messages are exactly one user message, the     *)
(* prompt is that message's extracted text and nothing else: no role       *)
(* label, no `Current request:` marker; and with one system and one user   *)
(* message systemPrompt is the system message's text.                      *)
(***************************************************************************)
SingleUserVerbatim ==
  (Flattened /\ Len(NonSystemMessages) = 1 /\ IsUser(NonSystemMessages[1])) =>
    /\ backendRuns[1].prompt = TextOf(NonSystemMessages[1])
    /\ ~Contains(backendRuns[1].prompt, "User: ")
    /\ ~Contains(backendRuns[1].prompt, "Current request:")
    /\ (Len(SystemMessages) = 1) =>
         /\ backendRuns[1].systemPrompt.defined
         /\ backendRuns[1].systemPrompt.text = TextOf(SystemMessages[1])
    /\ (Len(SystemMessages) = 0) => ~backendRuns[1].systemPrompt.defined

\* one system message and one user message made of content parts
SingleUserVerbatim_witness ==
  /\ Flattened
  /\ Len(MessagesOf(body)) = 2
  /\ MessagesOf(body)[1] = Msg("system", Str("S2"))
  /\ IsUser(MessagesOf(body)[2])
  /\ backendRuns[1].prompt = "U3\nU4"
  /\ backendRuns[1].systemPrompt.text = "S2"

(***************************************************************************)
(* C19  As claimed: every conversation with more than one non-system       *)
(* message has a last user message, and its prompt contains the marker     *)
(* `Current request:` followed on the next line by that message's text.    *)
(***************************************************************************)
LastUser ==
  NonSystemMessages[CHOOSE i \in 1..Len(NonSystemMessages) :
    /\ IsUser(NonSystemMessages[i])
    /\ \A k \in (i + 1)..Len(NonSystemMessages) : ~IsUser(NonSystemMessages[k])]

HasUser == \E i \in 1..Len(NonSystemMessages) : IsUser(NonSystemMessages[i])

CurrentRequestInEveryConversation ==
  (Flattened /\ Len(NonSystemMessages) > 1) =>
    /\ HasUser
    /\ Contains(backendRuns[1].prompt, "Current request:\n" \o TextOf(LastUser))

(***************************************************************************)
(* C19  Amended: a conversation with more than one non-system message, one *)
(* of them of role user, has a prompt that ends with the line              *)
(* `Current request:` followed by the text of the last user message; with  *)
(* no user message among them the prompt has no such marker.               *)
(***************************************************************************)
CurrentRequestIsLastUser ==
  (Flattened /\ Len(NonSystemMessages) > 1) =>
    IF HasUser
    THEN /\ EndsWith(backendRuns[1].prompt,
                     "Current request:\n" \o TextOf(LastUser))
         /\ Contains(backendRuns[1].prompt,
                     "Current request:\n" \o TextOf(LastUser))
    ELSE ~Contains(backendRuns[1].prompt, "Current request:")

\* two user messages with an assistant message between them
CurrentRequestIsLastUser_witness ==
  /\ Flattened
  /\ Len(NonSystemMessages) = 3
  /\ NonSystemMessages[1] = Msg("user", Str("U1"))
  /\ Get(NonSystemMessages[2], "role") = Str("assistant")
  /\ NonSystemMessages[3] = Msg("user", Str("U2"))
  /\ EndsWith(backendRuns[1].prompt, "Current request:\nU2")

(***************************************************************************)
(* C20  A conversation of one or more non-system messages, none of role    *)
(* user, gives the prompt that is every message formatted by formatMessage *)
(* and joined by blank lines, a conversation of a single message included. *)
(***************************************************************************)
NoUserFormatsAll ==
  (Flattened /\ Len(NonSystemMessages) >= 1 /\ ~HasUser) =>
    backendRuns[1].prompt = JoinStr(FormatAll(NonSystemMessages), "\n\n")

(***************************************************************************)
(* The route handler over model ids, client tools and configurations: the  *)
(* handler up to its first await, for every setting of the agent and       *)
(* bodies that differ in `model`, `tools` and `stream`.                    *)
(***************************************************************************)
\* the values sent as `model`: the ids of the table, ids it does not list,
\* names every JavaScript object inherits, and the empty string
ModelIds ==
  DOMAIN MODEL_MAP
    \cup {"gpt-4", "claude-3-opus", "Opus", "constructor", "toString", ""}

\* one entry of the `tools` array of a request
WeatherTool ==
  Obj(<<<<"type", Str("function")>>,
        <<"function", Obj(<<<<"name", Str("get_weather")>>,
                            <<"description", Str("Weather of a city")>>>>)>>>>)

ModelFields == {<<>>} \cup {<<<<"model", Str(m)>>>> : m \in ModelIds}
ToolsFields ==
  {<<>>, <<<<"tools", Arr(<<>>)>>>>, <<<<"tools", Arr(<<WeatherTool>>)>>>>}
StreamFields == {<<>>, <<<<"stream", Bool(TRUE)>>>>}

AgentBodies ==
  {Body(m \o <<<<"messages", Arr(<<Msg("user", Str("Hi"))>>)>>>> \o t \o st) :
     m \in ModelFields, t \in ToolsFields, st \in StreamFields}
  \cup { Body(<<<<"model", Str("opus")>>, <<"messages", Arr(<<>>)>>>>),
         Body(<<<<"model", Str("opus")>>,
                <<"messages", Arr(<<Msg("user", Arr(<<Null>>))>>)>>>>) }

\* settings of the agent that loadConfig can return
Configs ==
  [allowedTools : {<<"Read", "Edit", "Bash">>, <<"Read">>},
   permissionMode : {"acceptEdits", "default"},
   maxTurns : {50, 1, 3},
   workingDir : {"/workspace"},
   noToolExecution : BOOLEAN]

InitAgent ==
  /\ pc = "route"
  /\ body \in AgentBodies
  /\ apiSecret = "s3cret"
  /\ config \in Configs
  /\ req = AuthorizedChat
  /\ Fresh

NextAgent ==
  \/ PostInvalid
  \/ PostConvertError
  \/ PostStreaming
  \/ PostNonStreaming

SpecAgent == InitAgent /\ [][NextAgent]_vars

\* the body passes validateRequest and convertOpenAIToClaude
Convertible == validateRequest(body).ok /\ ~convertThrows(body)

(***************************************************************************)
(* C21  Whatever string is sent as model (a full id, an alias, an unknown  *)
(* string) or when none is sent, the request does not fail for it, the     *)
(* model handed to the backend is opus, sonnet or haiku (the table's value *)
(* for a listed id, sonnet for any other), and the model of the response   *)
(* is the id sent, claude-sonnet-4-5 when none (or an empty one) was.      *)
(***************************************************************************)
ModelResolvesToTier ==
  (pc # "route" /\ Convertible) =>
    /\ Len(backendRuns) = 1 /\ Len(queries) = 1 /\ resp = <<>>
    /\ backendRuns[1].model \in {"opus", "sonnet", "haiku"}
    /\ queries[1].options.model = backendRuns[1].model
    /\ LET id == Get(body, "model") IN
         /\ (id.t = "string" /\ id.v \in DOMAIN MODEL_MAP) =>
              backendRuns[1].model = MODEL_MAP[id.v]
         /\ (id.t # "string" \/ id.v \notin DOMAIN MODEL_MAP) =>
              backendRuns[1].model = "sonnet"
         /\ sseHeaders =>
              out[1].json.model =
                IF id = Undefined \/ id = Str("") THEN "claude-sonnet-4-5"
                ELSE id.v

(***************************************************************************)
(* C26  A request with a non-empty tools array starts the backend with the *)
(* built-in tools off and the client's tools given as an MCP server, not   *)
(* with the configured ALLOWED_TOOLS; a request without client tools       *)
(* starts it with the configured ALLOWED_TOOLS.                            *)
(***************************************************************************)
HasClientTools ==
  Get(body, "tools").t = "array" /\ Len(Get(body, "tools").v) > 0

ClientToolsReplaceBuiltins ==
  (Len(queries) = 1) =>
    IF HasClientTools
    THEN /\ "mcpServers" \in DOMAIN queries[1].options
         /\ \A i \in 1..Len(config.allowedTools) :
              \A j \in 1..Len(queries[1].options.allowedTools) :
                queries[1].options.allowedTools[j] # config.allowedTools[i]
    ELSE queries[1].options.allowedTools = config.allowedTools

ConvertBodies ==
  {b \in RouteBodies :
     /\ b.t = "object"
     /\ Get(b, "stream") = Undefined
     /\ IF Get(b, "messages").t = "array"
        THEN \A i \in 1..Len(MessagesOf(b)) : WellFormedMessage(MessagesOf(b)[i])
        ELSE ~Truthy(Get(b, "messages"))}

InitConvert ==
  /\ pc = "convert"
  /\ body \in ConvertBodies
  /\ apiSecret = "s3cret"
  /\ config = DefaultConfig
  /\ req = AuthorizedChat
  /\ Fresh

\* convertOpenAIToClaude throws: catch -> next(error) -> errorHandler
UnvalidatedConvertError ==
  /\ pc = "convert"
  /\ convertThrows(body)
  /\ resp' = Append(resp, errorHandler(convertError(body)))
  /\ pc' = "done"
  /\ UNCHANGED <<reqVars, queries>>
  /\ UNCHANGED <<body, sseHeaders, out, ended, completionId, idCalls,
                 backendRuns, backend, events, extracted, streamVars,
                 collectVars>>

\* convertOpenAIToClaude returns: handleNonStreamingRequest starts the run
UnvalidatedStart ==
  /\ pc = "convert"
  /\ ~convertThrows(body)
  /\ \E id \in CompletionIds : completionId' = id
  /\ idCalls' = idCalls + 1
  /\ collectedContent' = <<>>
  /\ collectedToolCalls' = <<>>
  /\ usage' = ZeroUsage
  /\ seenToolCallIds' = {}
  /\ backendRuns' = Append(backendRuns, agentOptions(body))
  /\ queries' = Append(queries, sdkQuery(agentOptions(body)))
  /\ backend' = "running"
  /\ pc' = "nonstreaming"
  /\ UNCHANGED reqVars
  /\ UNCHANGED <<body, resp, sseHeaders, out, ended, events, extracted,
                 streamVars>>

NextConvert ==
  \/ UnvalidatedConvertError
  \/ UnvalidatedStart

SpecConvert == InitConvert /\ [][NextConvert]_vars

(***************************************************************************)
(* C28  convertOpenAIToClaude called with an empty message list fails with *)
(* the error class that is reported as 400 invalid_request_error, without  *)
(* relying on the caller's validation.                                     *)
(***************************************************************************)
EmptyListIsInvalidRequest ==
  (pc # "convert" /\ Get(body, "messages") = Arr(<<>>)) =>
    /\ backendRuns = <<>>
    /\ Len(resp) = 1
    /\ resp[1].status = 400
    /\ resp[1].body.error.type = "invalid_request_error"

(***************************************************************************)
(* Reading the stream against the events consumed so far                   *)
(***************************************************************************)
\* the text extractContent takes from event i ("" for other events)
TextOfEvent(i) ==
  IF isAssistantMessage(events[i])
  THEN extractContent(events[i],
                      [k \in 1..BlockCount(events[i]) |-> "call_A"]).textContent
  ELSE ""

\* the ids of the tool calls extracted from the events before event i
IdsBefore(i) == UNION {IdsOf(extracted[k]) : k \in 1..(i - 1)}

\* event i brought a tool call whose id no earlier event had
BringsNewToolCall(i) == \E k \in 1..Len(extracted[i]) : extracted[i][k].id \notin IdsBefore(i)

IsInitialChunk(f) ==
  IsChunk(f) /\ DOMAIN DeltaOf(f) = {"role"} /\ DeltaOf(f).role = "assistant"

KindOf(f) ==
  CASE IsDone(f) -> "[DONE]"
    [] IsErrorFrame(f) -> "error"
    [] IsContentChunk(f) -> "content"
    [] IsToolCallChunk(f) -> "tool_calls"
    [] IsInitialChunk(f) -> "initial"
    [] OTHER -> "final"

Kinds == [i \in 1..Len(out) |-> KindOf(out[i])]

(***************************************************************************)
(* C24  A run of N assistant events, each with exactly one tool call whose *)
(* id no earlier event had and with no text, writes N + 2 chunks before    *)
(* the terminator: the initial chunk, one tool-call chunk per event in the *)
(* order of the events, and the final chunk.                               *)
(***************************************************************************)
ToolCallOnlyRun ==
  \A i \in 1..Len(events) :
    /\ isAssistantMessage(events[i])
    /\ TextOfEvent(i) = ""
    /\ Len(extracted[i]) = 1
    /\ extracted[i][1].id \notin IdsBefore(i)

ToolCallRunChunkCount ==
  (sseHeaders /\ ToolCallOnlyRun) =>
    /\ IsInitialChunk(out[1])
    /\ \A i \in 1..Len(events) :
         /\ IsToolCallChunk(out[i + 1])
         /\ Len(DeltaOf(out[i + 1]).tool_calls) = 1
         /\ DeltaOf(out[i + 1]).tool_calls[1].id = extracted[i][1].id
    /\ (backend = "running") => Len(out) = Len(events) + 1
    /\ (backend = "ended") =>
         /\ Len(out) = Len(events) + 3
         /\ IsFinalChunk(out[Len(events) + 2])
         /\ IsDone(out[Len(events) + 3])

\* three events with three different tool-call ids were streamed to the end
ToolCallRunChunkCount_witness ==
  /\ sseHeaders /\ backend = "ended"
  /\ ToolCallOnlyRun
  /\ Len(events) = 3
  /\ Len(out) = 6

(***************************************************************************)
(* C25  A streaming response has exactly one chunk whose delta is          *)
(* {role: assistant}; it is the first frame of the stream, and it is there *)
(* as soon as the backend run has been started and before any event has    *)
(* been consumed.                                                          *)
(***************************************************************************)
InitialChunkFirst ==
  /\ sseHeaders =>
       /\ Len(out) >= 1
       /\ IsInitialChunk(out[1])
       /\ \A i \in 2..Len(out) :
            ~(IsChunk(out[i]) /\ "role" \in DOMAIN DeltaOf(out[i]))
  /\ (sseHeaders /\ Len(events) = 0 /\ backend = "running") =>
       Kinds = <<"initial">>
  /\ (~sseHeaders) => out = <<>>

\* a finished stream with a content chunk and a tool-call chunk
InitialChunkFirst_witness ==
  /\ sseHeaders /\ backend = "ended"
  /\ Len(out) = 5
  /\ Kinds = <<"initial", "content", "tool_calls", "final", "[DONE]">>

(***************************************************************************)
(* C29  The stream follows the events in their order of arrival: the       *)
(* content chunks carry the non-empty extracted texts of the events in     *)
(* event order; after each event all its chunks are written before the     *)
(* next one is consumed; and the content chunk of an event precedes its    *)
(* tool-call chunk.                                                        *)
(***************************************************************************)
ContentTexts ==
  LET cs == SelectSeq(out, IsContentChunk)
  IN [i \in 1..Len(cs) |-> DeltaOf(cs[i]).content]

KindsOfEvent(i) ==
  (IF TextOfEvent(i) # "" THEN <<"content">> ELSE <<>>)
    \o (IF BringsNewToolCall(i) THEN <<"tool_calls">> ELSE <<>>)

KindsOfEvents == <<"initial">> \o Concat([i \in 1..Len(events) |-> KindsOfEvent(i)])

StreamFollowsEventOrder ==
  sseHeaders =>
    /\ ContentTexts = ExpectedTexts
    /\ Len(Kinds) >= Len(KindsOfEvents)
    /\ SubSeq(Kinds, 1, Len(KindsOfEvents)) = KindsOfEvents
    /\ (backend = "running") => Kinds = KindsOfEvents

\* two events consumed, the backend still running: the second event's content
\* chunk and tool-call chunk are already written, in that order
StreamFollowsEventOrder_witness ==
  /\ sseHeaders /\ backend = "running"
  /\ Len(events) = 2
  /\ ContentTexts = <<"a\nb", "Hello">>
  /\ Kinds = <<"initial", "content", "content", "tool_calls">>

(***************************************************************************)
(* C30  Without streaming, when the run has several Result events, the     *)
(* usage of the completion is the usage extracted from the last Result     *)
(* event alone: each Result event overwrites the running usage, wherever   *)
(* the assistant events fall between them.                                 *)
(***************************************************************************)
UsageIsLastResult ==
  (NonStreaming /\ ResultPositions # {}) =>
    /\ usage = extractUsage(LastResult)
    /\ (backend = "ended") => resp[1].body.usage = extractUsage(LastResult)

\* a completion after a Result event with 5 + 2 tokens, an assistant event,
\* and a Result event with 3 input tokens
UsageIsLastResult_witness ==
  /\ NonStreaming /\ backend = "ended"
  /\ Len(events) = 3
  /\ events[1] = [type |-> "result", subtype |-> "success",
                  usage |-> [input_tokens |-> 5, output_tokens |-> 2]]
  /\ isAssistantMessage(events[2])
  /\ events[3] = [type |-> "result", subtype |-> "success",
                  usage |-> [input_tokens |-> 3]]
  /\ resp[1].body.usage =
       [prompt_tokens |-> 3, completion_tokens |-> 0, total_tokens |-> 3]

(***************************************************************************)
(* The client goes away during a streaming response                        *)
(***************************************************************************)
\* streaming requests that reach handleStreamingRequest
StreamingBodies ==
  {b \in ValidBodies : Truthy(Get(b, "stream")) /\ ~convertThrows(b)}

InitDisconnect ==
  /\ pc = "route"
  /\ body \in StreamingBodies
  /\ apiSecret = "s3cret"
  /\ config = DefaultConfig
  /\ req = AuthorizedChat
  /\ Fresh

\* the socket closes while handleStreamingRequest is in its loop: the handler
\* registers no listener and passes no abort signal, and res.write on a closed
\* response does not throw, so nothing but the connection itself changes
ClientDisconnect ==
  /\ pc = "streaming"
  /\ connected
  /\ connected' = FALSE
  /\ UNCHANGED <<req, apiSecret, config, queries, pair>>
  /\ UNCHANGED <<pc, body, resp, sseHeaders, out, ended, completionId, idCalls,
                 backendRuns, backend, events, extracted, streamVars,
                 collectVars>>

NextDisconnect ==
  \/ PostStreaming
  \/ StreamMessage
  \/ StreamComplete
  \/ StreamError
  \/ ClientDisconnect

SpecDisconnect == InitDisconnect /\ [][NextDisconnect]_vars

(***************************************************************************)
(* C22  Once the client has disconnected during a streaming response, no   *)
(* further backend event is pulled for the request.                        *)
(***************************************************************************)
NoPullAfterDisconnect == [][(~connected) => (events' = events)]_vars

(***************************************************************************)
(* Two requests in flight at once.  Each invocation of a handler has its   *)
(* own locals (completionId, hasToolCalls, sentToolCallIds,                *)
(* collectedContent, collectedToolCalls, seenToolCallIds, usage) and its   *)
(* own res; the event loop runs one loop body at a time, in any order.     *)
(***************************************************************************)
MaxPairEvents == 2

Invocations == 1..2

PairBodies ==
  { Body(<<<<"model", Str("claude-sonnet-4-5")>>,
           <<"messages", Arr(<<Msg("user", Str("Hi"))>>)>>>>),
    Body(<<<<"model", Str("opus")>>,
           <<"messages", Arr(<<Msg("user", Str("Hi"))>>)>>,
           <<"stream", Bool(TRUE)>>>>) }

PairEvents ==
  { Assistant(<<TextBlock("Hello"), ToolUse("toolu_2", "get_time", Obj(<<>>))>>),
    Assistant(<<ToolUse("toolu_2", "get_time", Obj(<<>>))>>),
    [type |-> "result", subtype |-> "success",
     usage |-> [input_tokens |-> 5, output_tokens |-> 2]] }

\* the locals and the response of one invocation on entry to the route
LocalsOf(b) ==
  [stage |-> "route", body |-> b, completionId |-> "", backend |-> "idle",
   raised |-> <<>>, events |-> <<>>, out |-> <<>>, ended |-> FALSE,
   resp |-> <<>>, hasToolCalls |-> FALSE, sentToolCallIds |-> {},
   collectedContent |-> <<>>, collectedToolCalls |-> <<>>,
   seenToolCallIds |-> {}, usage |-> ZeroUsage]

\* handleStreamingRequest up to the first pull of the iterator
startStreaming(l, id) ==
  [l EXCEPT !.stage = "streaming", !.completionId = id, !.backend = "running",
            !.out = sendChunk(l.out,
                      buildInitialChunk(id, requestedModelOf(l.body)))]

\* handleNonStreamingRequest up to the first pull of the iterator
startNonStreaming(l, id) ==
  [l EXCEPT !.stage = "nonstreaming", !.completionId = id,
            !.backend = "running"]

\* the body of the streaming loop, run on the locals l with the set sent
streamBody(l, sent, message) ==
  LET model == requestedModelOf(l.body)
      ec == extractContent(message,
                           [k \in 1..BlockCount(message) |-> "call_A"])
      newToolCalls == newToolCallsOf(ec.toolCalls, sent)
      out1 == IF ec.textContent # ""
              THEN sendChunk(l.out, buildContentChunk(l.completionId, model,
                                                      ec.textContent))
              ELSE l.out
      out2 == IF Len(ec.toolCalls) > 0 /\ Len(newToolCalls) > 0
              THEN sendChunk(out1, buildToolCallChunk(l.completionId, model,
                                                      newToolCalls, TRUE))
              ELSE out1
  IN IF isAssistantMessage(message)
     THEN [l EXCEPT !.events = Append(l.events, message),
                    !.out = out2,
                    !.hasToolCalls = (l.hasToolCalls \/ Len(ec.toolCalls) > 0),
                    !.sentToolCallIds =
                       IF Len(ec.toolCalls) > 0
                       THEN sent \cup IdsOf(newToolCalls)
                       ELSE sent]
     ELSE [l EXCEPT !.events = Append(l.events, message)]

\* the body of the non-streaming loop, run on the locals l with the set seen
nonStreamBody(l, seen, message) ==
  LET ec == extractContent(message,
                           [k \in 1..BlockCount(message) |-> "call_A"])
      coll == collectToolCalls(l.collectedToolCalls, seen, ec.toolCalls)
      l1 == IF isAssistantMessage(message)
            THEN [l EXCEPT !.collectedContent =
                              IF ec.textContent # ""
                              THEN Append(l.collectedContent, ec.textContent)
                              ELSE l.collectedContent,
                           !.collectedToolCalls = coll.collected,
                           !.seenToolCallIds = coll.seen]
            ELSE l
  IN [l1 EXCEPT !.events = Append(l.events, message),
                !.usage = IF isResultMessage(message)
                          THEN extractUsage(message) ELSE l.usage]

\* the exit that writes the final chunk and neither terminator nor res.end()
streamExit_NoTerminator(l) ==
  [l EXCEPT !.out = sendChunk(l.out,
                      buildFinalChunk(l.completionId, requestedModelOf(l.body),
                                      l.hasToolCalls)),
            !.backend = "ended", !.stage = "done"]

\* the streaming loop ends: final chunk, terminator, res.end()
streamExit(l) ==
  [l EXCEPT !.out = sendDone(sendChunk(l.out,
                      buildFinalChunk(l.completionId, requestedModelOf(l.body),
                                      l.hasToolCalls))),
            !.ended = TRUE, !.backend = "ended", !.stage = "done"]

\* the streaming loop raises: error frame, terminator, res.end()
streamRaise(l, error) ==
  [l EXCEPT !.out = sendDone(sendError(l.out,
                      IF error.isError THEN error.message ELSE "Stream error")),
            !.ended = TRUE, !.backend = "raised", !.stage = "done",
            !.raised = <<error>>]

\* the non-streaming loop ends: the completion is built and sent
nonStreamExit(l) ==
  [l EXCEPT !.resp = Append(l.resp,
               [status |-> 200,
                body |-> buildChatCompletion(l.completionId,
                           requestedModelOf(l.body),
                           contentOf(l.collectedContent),
                           l.collectedToolCalls, l.usage)]),
            !.backend = "ended", !.stage = "done"]

\* the non-streaming loop raises: errorHandler answers
nonStreamRaise(l, error) ==
  [l EXCEPT !.resp = Append(l.resp, errorHandler(error)),
            !.backend = "raised", !.stage = "done", !.raised = <<error>>]

\* one set of sent ids shared by the two invocations
sentOf_Shared(r) ==
  UNION {pair[q].sentToolCallIds : q \in Invocations}

\* the sentToolCallIds that invocation r reads: its own local
sentOf(r) == pair[r].sentToolCallIds

\* the seenToolCallIds that invocation r reads: its own local
seenOf(r) == pair[r].seenToolCallIds

\* every variable of the single-request handler
soloVars ==
  <<pc, body, resp, sseHeaders, out, ended, completionId, idCalls, backendRuns,
    backend, events, extracted, hasToolCalls, sentToolCallIds, collectedContent,
    collectedToolCalls, seenToolCallIds, usage, req, apiSecret, config,
    connected, queries>>

InitPair ==
  /\ pc = "route"
  /\ body \in {b \in PairBodies : Truthy(Get(b, "stream"))}
  /\ apiSecret = "s3cret"
  /\ config = DefaultConfig
  /\ req = AuthorizedChat
  /\ connected = TRUE
  /\ queries = <<>>
  /\ resp = <<>>
  /\ sseHeaders = FALSE
  /\ out = <<>>
  /\ ended = FALSE
  /\ completionId = ""
  /\ idCalls = 0
  /\ backendRuns = <<>>
  /\ backend = "idle"
  /\ events = <<>>
  /\ extracted = <<>>
  /\ hasToolCalls = FALSE
  /\ sentToolCallIds = {}
  /\ collectedContent = <<>>
  /\ collectedToolCalls = <<>>
  /\ seenToolCallIds = {}
  /\ usage = ZeroUsage
  /\ pair \in [Invocations -> {LocalsOf(b) : b \in PairBodies}]

PairPostStreaming(r) ==
  /\ pair[r].stage = "route"
  /\ Truthy(Get(pair[r].body, "stream"))
  /\ \E id \in CompletionIds :
       pair' = [pair EXCEPT ![r] = startStreaming(pair[r], id)]
  /\ UNCHANGED soloVars

PairPostNonStreaming(r) ==
  /\ pair[r].stage = "route"
  /\ ~Truthy(Get(pair[r].body, "stream"))
  /\ \E id \in CompletionIds :
       pair' = [pair EXCEPT ![r] = startNonStreaming(pair[r], id)]
  /\ UNCHANGED soloVars

PairStreamMessage(r) ==
  /\ pair[r].stage = "streaming"
  /\ Len(pair[r].events) < MaxPairEvents
  /\ \E message \in PairEvents :
       pair' = [pair EXCEPT ![r] = streamBody(pair[r], sentOf(r), message)]
  /\ UNCHANGED soloVars

PairStreamComplete(r) ==
  /\ pair[r].stage = "streaming"
  /\ pair' = [pair EXCEPT ![r] = streamExit(pair[r])]
  /\ UNCHANGED soloVars

PairStreamError(r) ==
  /\ pair[r].stage = "streaming"
  /\ \E error \in BackendErrors :
       pair' = [pair EXCEPT ![r] = streamRaise(pair[r], error)]
  /\ UNCHANGED soloVars

PairNonStreamMessage(r) ==
  /\ pair[r].stage = "nonstreaming"
  /\ Len(pair[r].events) < MaxPairEvents
  /\ \E message \in PairEvents :
       pair' = [pair EXCEPT ![r] = nonStreamBody(pair[r], seenOf(r), message)]
  /\ UNCHANGED soloVars

PairNonStreamComplete(r) ==
  /\ pair[r].stage = "nonstreaming"
  /\ pair' = [pair EXCEPT ![r] = nonStreamExit(pair[r])]
  /\ UNCHANGED soloVars

PairNonStreamError(r) ==
  /\ pair[r].stage = "nonstreaming"
  /\ \E error \in BackendErrors :
       pair' = [pair EXCEPT ![r] = nonStreamRaise(pair[r], error)]
  /\ UNCHANGED soloVars

NextPair ==
  \/ \E r \in Invocations : PairPostStreaming(r)
  \/ \E r \in Invocations : PairPostNonStreaming(r)
  \/ \E r \in Invocations : PairStreamMessage(r)
  \/ \E r \in Invocations : PairStreamComplete(r)
  \/ \E r \in Invocations : PairStreamError(r)
  \/ \E r \in Invocations : PairNonStreamMessage(r)
  \/ \E r \in Invocations : PairNonStreamComplete(r)
  \/ \E r \in Invocations : PairNonStreamError(r)

SpecPair == InitPair /\ [][NextPair]_vars

(***************************************************************************)
(* C23  Under every interleaving of two requests, the frames, the          *)
(* response and the locals of each request are what the request produces   *)
(* when it runs alone on its own events with its own completion id; a      *)
(* tool-call id that comes up in both requests is delivered in both.       *)
(***************************************************************************)
RECURSIVE AloneAfter(_, _)
\* the locals of a request that runs alone from l over the events evs
AloneAfter(l, evs) ==
  IF Len(evs) = 0 THEN l
  ELSE LET before == AloneAfter(l, SubSeq(evs, 1, Len(evs) - 1))
           message == evs[Len(evs)]
       IN IF before.stage = "streaming"
          THEN streamBody(before, before.sentToolCallIds, message)
          ELSE nonStreamBody(before, before.seenToolCallIds, message)

\* what the request with the body, completion id, events and exit of l
\* produces when no other request is in flight
Alone(l) ==
  LET entry == LocalsOf(l.body)
      streaming == Truthy(Get(l.body, "stream"))
      started == IF streaming THEN startStreaming(entry, l.completionId)
                 ELSE startNonStreaming(entry, l.completionId)
      after == AloneAfter(started, l.events)
  IN CASE l.stage = "route" -> entry
       [] l.backend = "running" -> after
       [] l.backend = "ended" ->
            IF streaming THEN streamExit(after) ELSE nonStreamExit(after)
       [] OTHER ->
            IF streaming THEN streamRaise(after, l.raised[1])
            ELSE nonStreamRaise(after, l.raised[1])

\* the tool-call ids in the events request r has consumed
PairIdsIn(r) ==
  UNION {IdsOf(extractContent(pair[r].events[i],
                 [k \in 1..BlockCount(pair[r].events[i]) |-> "call_A"]).toolCalls)
           : i \in {j \in 1..Len(pair[r].events) :
                      isAssistantMessage(pair[r].events[j])}}

\* the tool-call ids request r has delivered, in its frames or its completion
PairIdsDelivered(r) ==
  UNION ({IdsOf(DeltaOf(pair[r].out[i]).tool_calls)
            : i \in {j \in 1..Len(pair[r].out) : IsToolCallChunk(pair[r].out[j])}}
         \cup {IdsOf(pair[r].collectedToolCalls)})

RequestsIndependent ==
  \A r \in Invocations :
    /\ pair[r] = Alone(pair[r])
    /\ PairIdsDelivered(r) = PairIdsIn(r)

\* two streaming requests are both in their loops, each one event in, and
\* both had the tool call toolu_2: both streams carry it
RequestsIndependent_witness ==
  /\ \A r \in Invocations :
       /\ pair[r].stage = "streaming"
       /\ Len(pair[r].events) = 1
       /\ PairIdsIn(r) = {"toolu_2"}
       /\ PairIdsDelivered(r) = {"toolu_2"}
  /\ pair[1].completionId # pair[2].completionId

(***************************************************************************)
(* C31  A conversation with more than one non-system message, one of them  *)
(* of role user, gives a prompt made of these sections in this order, a    *)
(* section without messages left out: `Previous conversation:` and the     *)
(* formatted messages before the last user message; the formatted messages *)
(* after the last user message, with no header; `Current request:` and the *)
(* text of the last user message.  The prompt ends with that text, and     *)
(* every non-system message is in exactly one section.                     *)
(***************************************************************************)
LastUserPosition ==
  CHOOSE i \in 1..Len(NonSystemMessages) :
    /\ IsUser(NonSystemMessages[i])
    /\ \A k \in (i + 1)..Len(NonSystemMessages) : ~IsUser(NonSystemMessages[k])

\* the formatted messages at the positions from..to, separated by blank lines
FormattedSection(from, to) ==
  JoinStr([i \in 1..(to - from + 1) |->
             formatMessage(NonSystemMessages[from + i - 1])], "\n\n")

PromptSectionsInOrder ==
  (Flattened /\ Len(NonSystemMessages) > 1 /\ HasUser) =>
    LET n == Len(NonSystemMessages)
        k == LastUserPosition
        previous == IF k > 1
                    THEN "Previous conversation:\n" \o FormattedSection(1, k - 1)
                           \o "\n\n"
                    ELSE ""
        trailing == IF k < n THEN FormattedSection(k + 1, n) \o "\n\n" ELSE ""
        current == "Current request:\n" \o TextOf(NonSystemMessages[k])
    IN /\ backendRuns[1].prompt = previous \o trailing \o current
       /\ EndsWith(backendRuns[1].prompt, TextOf(NonSystemMessages[k]))

\* an assistant message before and a tool message after the only user message
PromptSectionsInOrder_witness ==
  /\ Flattened
  /\ Len(NonSystemMessages) = 3
  /\ Get(NonSystemMessages[1], "role") = Str("assistant")
  /\ NonSystemMessages[2] = Msg("user", Str("U1"))
  /\ Get(NonSystemMessages[3], "role") = Str("tool")
  /\ Contains(backendRuns[1].prompt, "Previous conversation:\nAssistant: ")
  /\ EndsWith(backendRuns[1].prompt, "\n\nCurrent request:\nU1")

(***************************************************************************)
(* C32  extractContent turns every tool_use block of an assistant event    *)
(* into exactly one tool call, in block order: as many tool calls as       *)
(* tool_use blocks, the id of the block when it has one, the name of the   *)
(* block, and as arguments the JSON text of the block's input ({} when     *)
(* there is none); nothing comes from the other blocks.                    *)
(***************************************************************************)
ToolUseBlocksOf(message) ==
  SelectSeq(message.message.content, LAMBDA block : block.type = "tool_use")

EveryToolUseBlockIsOneToolCall ==
  \A i \in 1..Len(events) :
    IF isAssistantMessage(events[i])
    THEN LET blocks == ToolUseBlocksOf(events[i])
         IN /\ Len(extracted[i]) = Len(blocks)
            /\ \A k \in 1..Len(blocks) :
                 /\ Has(blocks[k], "id") => extracted[i][k].id = blocks[k].id
                 /\ Has(blocks[k], "name")
                 /\ extracted[i][k].function.name = blocks[k].name
                 /\ extracted[i][k].function.arguments =
                      JsonStringify(IF Has(blocks[k], "input")
                                    THEN blocks[k].input ELSE Obj(<<>>))
    ELSE extracted[i] = <<>>

(***************************************************************************)
(* The two handlers run over one and the same backend event sequence:      *)
(* invocation 1 is handleStreamingRequest, invocation 2 is                 *)
(* handleNonStreamingRequest, and every event the backend yields is given  *)
(* to the loop body of each.                                               *)
(***************************************************************************)
\* the events whose tool_use blocks all carry an id given by the backend
IdEvents ==
  {e \in Events :
     isAssistantMessage(e) =>
       \A k \in 1..BlockCount(e) :
         e.message.content[k].type = "tool_use" =>
           Has(e.message.content[k], "id")}

InitBoth ==
  /\ pc = "route"
  /\ body \in {b \in PairBodies : Truthy(Get(b, "stream"))}
  /\ apiSecret = "s3cret"
  /\ config = DefaultConfig
  /\ req = AuthorizedChat
  /\ connected = TRUE
  /\ queries = <<>>
  /\ resp = <<>>
  /\ sseHeaders = FALSE
  /\ out = <<>>
  /\ ended = FALSE
  /\ completionId = ""
  /\ idCalls = 0
  /\ backendRuns = <<>>
  /\ backend = "idle"
  /\ events = <<>>
  /\ extracted = <<>>
  /\ hasToolCalls = FALSE
  /\ sentToolCallIds = {}
  /\ collectedContent = <<>>
  /\ collectedToolCalls = <<>>
  /\ seenToolCallIds = {}
  /\ usage = ZeroUsage
  /\ \E b1, b2 \in PairBodies :
       /\ Truthy(Get(b1, "stream"))
       /\ ~Truthy(Get(b2, "stream"))
       /\ pair = <<LocalsOf(b1), LocalsOf(b2)>>

\* both handlers run up to the first pull of their iterator
BothStart ==
  /\ pair[1].stage = "route"
  /\ \E id1, id2 \in CompletionIds :
       pair' = <<startStreaming(pair[1], id1), startNonStreaming(pair[2], id2)>>
  /\ UNCHANGED soloVars

\* the backend yields a message: one run of each loop body
BothMessage ==
  /\ pair[1].stage = "streaming"
  /\ Len(pair[1].events) < MaxEvents
  /\ \E message \in IdEvents :
       pair' = <<streamBody(pair[1], pair[1].sentToolCallIds, message),
                 nonStreamBody(pair[2], pair[2].seenToolCallIds, message)>>
  /\ UNCHANGED soloVars

\* the backend sequence ends: each handler takes its normal exit
BothComplete ==
  /\ pair[1].stage = "streaming"
  /\ pair' = <<streamExit(pair[1]), nonStreamExit(pair[2])>>
  /\ UNCHANGED soloVars

\* the backend sequence raises: each handler takes its catch
BothError ==
  /\ pair[1].stage = "streaming"
  /\ \E error \in BackendErrors :
       pair' = <<streamRaise(pair[1], error), nonStreamRaise(pair[2], error)>>
  /\ UNCHANGED soloVars

NextBoth ==
  \/ BothStart
  \/ BothMessage
  \/ BothComplete
  \/ BothError

SpecBoth == InitBoth /\ [][NextBoth]_vars

(***************************************************************************)
(* C33  For one backend event sequence whose tool_use blocks carry ids,    *)
(* the tool calls of the streaming response, read in stream order over all *)
(* its tool-call chunks, are the same sequence of (id, name, arguments) as *)
(* the tool_calls list of the non-streaming completion.                    *)
(***************************************************************************)
CallTriple(tc) ==
  [id |-> tc.id, name |-> tc.function.name, arguments |-> tc.function.arguments]

\* the tool calls in the tool-call chunks of invocation 1, in stream order
StreamedToolCalls ==
  Concat([i \in 1..Len(pair[1].out) |->
            IF IsToolCallChunk(pair[1].out[i])
            THEN [k \in 1..Len(DeltaOf(pair[1].out[i]).tool_calls) |->
                    CallTriple(DeltaOf(pair[1].out[i]).tool_calls[k])]
            ELSE <<>>])

\* the tool_calls list of the completion of invocation 2
CompletionToolCalls ==
  LET message == pair[2].resp[1].body.choices[1].message
  IN IF Has(message, "tool_calls")
     THEN [k \in 1..Len(message.tool_calls) |-> CallTriple(message.tool_calls[k])]
     ELSE <<>>

SameToolCallsOnBothPaths ==
  (pair[1].backend = "ended" /\ pair[2].backend = "ended") =>
    StreamedToolCalls = CompletionToolCalls

(***************************************************************************)
(* C34  Within one streaming response the index of a tool-call delta entry *)
(* identifies the tool call: two entries with different tool-call ids      *)
(* never have the same index, whether they are in one tool-call chunk or   *)
(* in two.                                                                 *)
(***************************************************************************)
IndexIdentifiesToolCall ==
  \A e1, e2 \in ToolCallEntries :
    EntryOf(e1).id # EntryOf(e2).id => EntryOf(e1).index # EntryOf(e2).index

(***************************************************************************)
(* C35  In a stream the final chunk and the error chunk exclude each       *)
(* other: when the backend sequence raised, no chunk of the stream has a   *)
(* finish_reason other than null; when it ended normally, exactly one      *)
(* chunk has one, it is the frame right before the terminator, and the     *)
(* stream has no error chunk.                                              *)
(***************************************************************************)
FinishPositions ==
  {i \in 1..Len(out) : IsChunk(out[i]) /\ FinishReasonOf(out[i]) # NullValue}

FinalAndErrorExclusive ==
  sseHeaders =>
    /\ (backend = "raised") =>
         /\ FinishPositions = {}
         /\ Cardinality(ErrorPositions) = 1
    /\ (backend = "ended") =>
         /\ FinishPositions = {Len(out) - 1}
         /\ IsDone(out[Len(out)])
         /\ ErrorPositions = {}
    /\ (backend = "running") => FinishPositions = {} /\ ErrorPositions = {}

\* a stream that raised after a tool-call chunk: hasToolCalls is set, and the
\* stream still has no finish_reason
FinalAndErrorExclusive_witness ==
  /\ sseHeaders /\ backend = "raised"
  /\ hasToolCalls
  /\ \E i \in 1..Len(out) : IsToolCallChunk(out[i])
  /\ Cardinality(ErrorPositions) = 1
  /\ FinishPositions = {}

(***************************************************************************)
(* C36  An event that is not an assistant-content event (a result, a       *)
(* system init, another type, an assistant event without content) or that  *)
(* is an assistant event with neither text nor tool calls leaves the       *)
(* streaming handler as it was: no frame is written, sentToolCallIds and   *)
(* hasToolCalls keep their values.  In the non-streaming handler such an   *)
(* event changes nothing but the usage, and the usage only when it is a    *)
(* Result event.                                                           *)
(***************************************************************************)
\* the step consumes an event, and the event yields no text and no tool call
ConsumesInertEvent ==
  /\ Len(events') = Len(events) + 1
  /\ LET e == events'[Len(events')]
     IN \/ ~isAssistantMessage(e)
        \/ /\ extractContent(e, [k \in 1..BlockCount(e) |-> "call_A"]).textContent
                = ""
           /\ extracted'[Len(extracted')] = <<>>

InertEventsChangeNothing ==
  [][ConsumesInertEvent =>
       /\ out' = out
       /\ resp' = resp
       /\ hasToolCalls' = hasToolCalls
       /\ sentToolCallIds' = sentToolCallIds
       /\ collectedContent' = collectedContent
       /\ collectedToolCalls' = collectedToolCalls
       /\ seenToolCallIds' = seenToolCallIds
       /\ (pc = "streaming") => usage' = usage
       /\ (events'[Len(events')].type # "result") => usage' = usage]_vars

\* a stream that consumed a text event, a Result event and an assistant event
\* without blocks, and holds the initial chunk and one content chunk
InertEventsChangeNothing_witness ==
  /\ pc = "streaming"
  /\ Len(events) = 3
  /\ events[1] = Assistant(<<TextBlock("Hello")>>)
  /\ events[2].type = "result"
  /\ events[3] = Assistant(<<>>)
  /\ Len(out) = 2
  /\ ~hasToolCalls

(***************************************************************************)
(* C37  A request that asks for a stream and whose body fails validation,  *)
(* or whose messages the conversion cannot flatten, gets no event-stream   *)
(* output: the SSE headers, the initial chunk and the terminator are never *)
(* written, the backend is not started, and the answer is one JSON error   *)
(* response.                                                               *)
(***************************************************************************)
StreamRequested == body.t = "object" /\ Truthy(Get(body, "stream"))

RejectedBeforeStream ==
  \/ ~validateRequest(body).ok
  \/ convertThrows(body)

NoStreamForRejectedRequest ==
  (StreamRequested /\ RejectedBeforeStream) =>
    /\ ~sseHeaders
    /\ out = <<>>
    /\ ~ended
    /\ backendRuns = <<>>
    /\ (pc = "done") =>
         /\ Len(resp) = 1
         /\ resp[1].status \in {400, 500}
         /\ "error" \in DOMAIN resp[1].body

\* a stream=true request that passes validation and fails in the conversion
\* was answered with the JSON error of the error handler
NoStreamForRejectedRequest_witness ==
  /\ StreamRequested
  /\ validateRequest(body).ok
  /\ convertThrows(body)
  /\ pc = "done"
  /\ Len(resp) = 1
  /\ resp[1].status = 500
  /\ out = <<>>

(***************************************************************************)
(* C38  Every request gets exactly one response.  A non-streaming request  *)
(* gets one completion JSON body or one error JSON body, never both, and   *)
(* nothing while the backend sequence is still running.  A streaming       *)
(* request whose stream has started never gets a JSON response from the    *)
(* error handler: a backend failure is reported inside the stream only.    *)
(***************************************************************************)
IsCompletionResponse(r) ==
  /\ r.status = 200
  /\ "object" \in DOMAIN r.body
  /\ r.body.object = "chat.completion"

IsErrorResponse(r) == r.status >= 400 /\ "error" \in DOMAIN r.body

ExactlyOneResponse ==
  /\ Len(resp) <= 1
  /\ sseHeaders => resp = <<>>
  /\ NonStreaming =>
       /\ out = <<>>
       /\ (backend = "running") => resp = <<>>
       /\ (backend = "ended") => Len(resp) = 1 /\ IsCompletionResponse(resp[1])
       /\ (backend = "raised") => Len(resp) = 1 /\ IsErrorResponse(resp[1])
  /\ (pc = "done") =>
       IF sseHeaders THEN ended /\ Cardinality(DonePositions) = 1
       ELSE Len(resp) = 1 /\ ~ended

\* a stream whose backend raised after an event: the failure is in the
\* stream, and no JSON response was sent
ExactlyOneResponse_witness ==
  /\ sseHeaders /\ backend = "raised"
  /\ Len(events) >= 1
  /\ resp = <<>>
  /\ Cardinality(ErrorPositions) = 1
  /\ ended

(***************************************************************************)
(* Progress of accepted requests.  The handlers run on the event loop: a   *)
(* continuation that is ready runs, so for each invocation a step that     *)
(* stays possible is taken (weak fairness of the steps of each             *)
(* invocation).  The backend sequence is finite: after at most             *)
(* MaxPairEvents events the iterator ends or raises.                       *)
(***************************************************************************)
\* the steps of invocation r
StepOf(r) ==
  \/ PairPostStreaming(r)
  \/ PairPostNonStreaming(r)
  \/ PairStreamMessage(r)
  \/ PairStreamComplete(r)
  \/ PairStreamError(r)
  \/ PairNonStreamMessage(r)
  \/ PairNonStreamComplete(r)
  \/ PairNonStreamError(r)

\* a streaming and a non-streaming request are in flight
SpecPairLive ==
  /\ InitBoth
  /\ [][NextPair]_vars
  /\ \A r \in Invocations : WF_vars(StepOf(r))

(***************************************************************************)
(* C39  With a finite backend sequence every authenticated valid request   *)
(* completes, whatever else is in flight: a streaming response comes to    *)
(* write the terminator and end the connection, a non-streaming request    *)
(* comes to send its one JSON response.                                    *)
(***************************************************************************)
RequestCompleted(r) ==
  /\ pair[r].stage = "done"
  /\ IF Truthy(Get(pair[r].body, "stream"))
     THEN /\ pair[r].ended
          /\ Len(pair[r].out) >= 1
          /\ IsDone(pair[r].out[Len(pair[r].out)])
     ELSE Len(pair[r].resp) = 1

EveryRequestCompletes ==
  \A r \in Invocations : (pair[r].stage = "route") ~> RequestCompleted(r)

\* a stream that consumed as many events as the backend had and then ended,
\* next to a non-streaming request that was answered
EveryRequestCompletes_witness ==
  /\ RequestCompleted(1)
  /\ RequestCompleted(2)
  /\ Truthy(Get(pair[1].body, "stream"))
  /\ ~Truthy(Get(pair[2].body, "stream"))
  /\ Len(pair[1].events) = MaxPairEvents
  /\ pair[1].backend = "ended"

====
